---- MODULE Spec2Model ----
(***************************************************************************)
(* A state-machine model of the Odoo Manager deployment orchestration      *)
(* engine: environments and promotion (core/environment.py), the instance  *)
(* registry and the two deployers (core/instance.py, deployers/), the      *)
(* CI/CD pipeline (core/cicd.py), health monitoring and auto-restart       *)
(* (core/monitor.py) and the cron scheduler (core/scheduler.py).           *)
(***************************************************************************)
EXTENDS Integers, Sequences, FiniteSets, TLC

VARIABLES
    environments,   \* environments.yaml: name -> [tier, git_repo]
    repoBranch,     \* per managed repository: the branch checked out in its working tree
    instances,      \* instances.yaml: name -> [environment, git_branch, git_repo, deployment_type]
    fileExists,     \* per instance name: compose file / systemd unit file present
    proc,           \* per instance name: state of the container / service
    toolOk,         \* docker daemon up / systemctl commands succeed / compose commands succeed
    history,        \* deployment_history.yaml: environment -> list of records, in append order
    now,            \* wall clock read by datetime.now()
    envRes,         \* outcome of the last EnvironmentManager / Instance operation
    pipeRes,        \* the PipelineResult returned by the last CICDPipeline operation
    restart_history,\* AutoRestart.restart_history: name -> list of timestamps
    arRes,          \* outcome of the last AutoRestart operation
    healthRes,      \* the InstanceHealth returned by the last check_instance
    tasks,          \* SchedulerManager.tasks: id -> ScheduledTask
    jobs,           \* the APScheduler job table: id -> job
    schedRes,       \* outcome of the last SchedulerManager operation
    pid_file,       \* the scheduler's pid file: the process id written in it, or None
    procs,          \* per process: where it is in start(), whether it lives, scheduler.running
    executions,     \* per task id: runs in progress, by the dispatcher and by run_task_now
    deploys         \* per deploying process: where it is in deploy() and what it has loaded

envVars   == <<environments, repoBranch, instances, fileExists, proc, toolOk, history, now, envRes>>
daemonVars == <<pid_file, procs, executions>>
vars == <<environments, repoBranch, instances, fileExists, proc, toolOk, history, now,
          envRes, pipeRes, restart_history, arRes, healthRes, tasks, jobs, schedRes,
          pid_file, procs, executions, deploys>>

(***************************************************************************)
(* Program constants                                                       *)
(***************************************************************************)
ENV_TIER_DEV        == "dev"
ENV_TIER_STAGING    == "staging"
ENV_TIER_PRODUCTION == "production"
tier_order          == <<ENV_TIER_DEV, ENV_TIER_STAGING, ENV_TIER_PRODUCTION>>

DEPLOYMENT_DOCKER == "docker"
DEPLOYMENT_SOURCE == "source"
COMPOSE           == "compose"     \* the `docker compose` / `docker-compose` command

STATE_RUNNING == "running"
STATE_STOPPED == "stopped"
STATE_ERROR   == "error"
STATE_UNKNOWN == "unknown"

HISTORY_CAP == 50       \* data[env][-50:]

\* ValidationStatus
RUNNING == "running"
PASSED  == "passed"
FAILED  == "failed"
SKIPPED == "skipped"

min_disk_space_gb == 5  \* PipelineConfig default
ROLLBACK_LIMIT    == 20 \* rollback reads get_deployment_history(environment, limit=20)
max_instances     == 1  \* job_defaults of the BackgroundScheduler

\* HealthStatus
HEALTHY   == "healthy"
WARNING   == "warning"
CRITICAL  == "critical"
UNKNOWN   == "unknown"

\* HealthMonitor thresholds, as __init__ stores them
cpu_warning     == 70
cpu_critical    == 90
memory_warning  == 70
memory_critical == memory_warning    \* self.memory_critical = memory_warning
DEFAULT_MEMORY_CRITICAL == 85        \* the default of the memory_critical argument
disk_warning    == 80
disk_critical   == 90
LOG_ERROR_LIMIT   == 10              \* error_count > 10
LOG_WARNING_LIMIT == 20              \* warning_count > 20

max_restarts   == 3     \* AutoRestart.__init__ default
restart_window == 300   \* AutoRestart.__init__ default, seconds

\* Python's None for the optional string fields and arguments
None == "None"

(***************************************************************************)
(* Bounds and input sets                                                   *)
(***************************************************************************)
MaxDeploys     == 3      \* deployment records written in the general specification
MaxHistDeploys == 52     \* deployment records written in the history-cap specification
MaxLimit       == 4      \* largest limit passed to get_deployment_history
MaxPipeDeploys == 2      \* deployment records written in the pipeline specification
MaxRecorded    == 4      \* restarts recorded in the auto-restart specification
MaxRollDeploys == 22     \* deployment records written in the rollback specification
MaxSeqDeploys  == 2      \* deployment records written in the sequential specification
MaxConcDeploys == 2      \* deploys begun by the overlapping processes together
MaxCallers     == 2      \* threads inside run_task_now for one task id at a time

EnvNames  == {"dev", "staging", "production"}
Repos     == {"r1", "r2"}                    \* repositories present under repos_dir; "r9" is none
Branches  == {"main", "feature"}
InstNames == {"odoo-dev", "odoo-staging", "odoo-production", "app"}
SpecRepoArgs  == {None, "r2"}                \* repo arguments tried in Spec
InstSpecNames == {"app", "odoo-dev"}          \* instances of the instance specification
SpecStartable == {"odoo-production"}         \* instances started and stopped in Spec
SeqEnvs       == {"dev", "staging"}            \* environments of the sequential specification

\* inputs of a health check: what the probes of the environment observe
StatusProbes == {"running", "not_running", "raises"}     \* second is_running call
DbProbes     == {"connected", "refused", "raises"}       \* check_connection
HttpProbes   == {"ok", "other_code", "timeout", "raises"}
LogProbes    == {[raises |-> TRUE, errors |-> 0, warnings |-> 0],
                 [raises |-> FALSE, errors |-> 10, warnings |-> 20],
                 [raises |-> FALSE, errors |-> 10, warnings |-> 21],
                 [raises |-> FALSE, errors |-> 11, warnings |-> 0]}
ResourceProbes ==                                        \* usage in percent
    {[raises |-> TRUE, cpu |-> 0, memory_mb |-> 0, memory_percent |-> 0, disk_percent |-> 0]} \cup
    {[raises |-> FALSE, cpu |-> u[1], memory_mb |-> 512, memory_percent |-> u[2],
      disk_percent |-> u[3]] :
        u \in {<<50, 50, 50>>, <<70, 50, 50>>, <<50, 70, 50>>, <<50, 50, 90>>}}
\* usage figures on both sides of every default threshold
ThresholdProbes ==
    {[raises |-> TRUE, cpu |-> 0, memory_mb |-> 0, memory_percent |-> 0, disk_percent |-> 0]} \cup
    {[raises |-> FALSE, cpu |-> c, memory_mb |-> 512, memory_percent |-> m, disk_percent |-> d] :
        c \in {69, 70, 89, 90}, m \in {69, 70, 84, 85}, d \in {79, 80, 89, 90}}
MonNames == {"app"}                                      \* instances that are health-checked

\* what the validation stages of one pipeline run find
StageProbes ==
    { [py_raises |-> FALSE, py_errors |-> 0, xml |-> "ok", disk |-> "5", db |-> "connected", tests |-> "rc0"],
      [py_raises |-> FALSE, py_errors |-> 1, xml |-> "ok", disk |-> "5", db |-> "connected", tests |-> "rc0"],
      [py_raises |-> FALSE, py_errors |-> 0, xml |-> "no_parser", disk |-> "raises", db |-> "raises", tests |-> "no_tests_dir"],
      [py_raises |-> FALSE, py_errors |-> 0, xml |-> "errors", disk |-> "5", db |-> "raises", tests |-> "raises"],
      [py_raises |-> FALSE, py_errors |-> 0, xml |-> "ok", disk |-> "4", db |-> "connected", tests |-> "rc0"],
      [py_raises |-> FALSE, py_errors |-> 0, xml |-> "ok", disk |-> "5", db |-> "refused", tests |-> "no_tests_dir"],
      [py_raises |-> FALSE, py_errors |-> 0, xml |-> "ok", disk |-> "5", db |-> "raises", tests |-> "rc1"],
      [py_raises |-> FALSE, py_errors |-> 0, xml |-> "no_parser", disk |-> "5", db |-> "connected", tests |-> "timeout"],
      \* a *.py file that read_text cannot decode; an *.xml file that cannot be opened
      [py_raises |-> TRUE, py_errors |-> 0, xml |-> "ok", disk |-> "5", db |-> "connected", tests |-> "rc0"],
      [py_raises |-> FALSE, py_errors |-> 0, xml |-> "raises", disk |-> "5", db |-> "connected", tests |-> "rc0"] }

\* every stage passes
PassingProbes == CHOOSE probes \in StageProbes :
                     /\ ~probes.py_raises /\ probes.py_errors = 0 /\ probes.xml = "ok"
                     /\ probes.disk = "5" /\ probes.db = "connected" /\ probes.tests = "rc0"

\* PipelineConfig: the defaults, and everything optional switched off
PipelineConfigs ==
    { [run_tests |-> TRUE, check_migrations |-> TRUE, rollback_on_failure |-> TRUE,
       zero_downtime |-> TRUE],
      [run_tests |-> FALSE, check_migrations |-> FALSE, rollback_on_failure |-> FALSE,
       zero_downtime |-> FALSE] }

DefaultConfig == CHOOSE cfg \in PipelineConfigs : cfg.rollback_on_failure

PipeEnvs  == {"staging", "production"}         \* environments the pipeline deploys to
PipeRepos == {None, "r9"}                      \* repo arguments given to the pipeline
PipeDeployEnvs == PipeEnvs \cup {"qa"}         \* "qa" is no registered environment
\* with skip_validation no stage runs
SkippedProbes == CHOOSE probes \in StageProbes : probes.py_errors = 1

\* target_id arguments of rollback, as the parts of f"{environment}-{timestamp}";
\* <<>> is None (or ""): no target given
TargetIds == { <<>>, <<"staging">>, <<"staging", 0>>, <<"staging", 1>>, <<"production">> }

\* cron expressions handed to add_task, as strings of characters
TaskIds   == {"t1", "t2"}
Funcs     == {"f1", "f2"}                      \* callables handed to add_task
Kwargs    == {None, "k1"}                      \* their kwargs; None: no kwargs given
Pids      == {"p1", "p2", "p3"}                \* the processes that use the scheduler
CronChars == {"*", "0", "2"}                   \* characters CronTrigger accepts in a field
CronExprs ==
    { <<"0", " ", "2", " ", "*", " ", "*", " ", "*">>,              \* "0 2 * * *"
      <<"0", " ", " ", "2", " ", "*", " ", "*", " ", "*", " ">>,    \* "0  2 * * * "
      <<"0", " ", "2", " ", "*", " ", "*">>,                        \* "0 2 * *"
      <<"0", " ", "0", " ", "2", " ", "*", " ", "*", " ", "*">>,    \* "0 0 2 * * *"
      <<"0", " ", "2", " ", "*", " ", "*", " ", "x">>,              \* "0 2 * * x"
      <<>> }                                                        \* ""

ValidCron == <<"0", " ", "2", " ", "*", " ", "*", " ", "*">>     \* "0 2 * * *"
ReplaceCrons == {ValidCron, <<"0", " ", "2", " ", "*", " ", "*">>}

ARNames  == {"a", "b"}                        \* instance names given to AutoRestart
Instants == {0, 1, 299, 300, 301, 600}        \* the times at which AutoRestart is called

\* local heads of each repository: r2 has no feature branch
RepoHeads(r) == IF r = "r1" THEN {"main", "feature"} ELSE {"main"}

\* the registries the model starts from: tier and bound repository of each environment
EnvRegistries ==
    { [e \in EnvNames |-> [tier |-> e, git_repo |-> g[e]]] :
        g \in { [dev |-> "r1", staging |-> "r1", production |-> None],
                [dev |-> "r2", staging |-> "r1", production |-> "r2"] } }

(***************************************************************************)
(* Sequence helpers                                                        *)
(***************************************************************************)
\* Python's s[-n:] for n > 0
LastN(s, n) == IF Len(s) <= n THEN s ELSE SubSeq(s, Len(s) - n + 1, Len(s))

\* Python's s[:n] for n >= 0
FirstN(s, n) == IF Len(s) <= n THEN s ELSE SubSeq(s, 1, n)

Min(a, b) == IF a <= b THEN a ELSE b

\* Python's list.index on tier_order (0-based); -1 stands for ValueError
TierIndex(t) ==
    IF \E i \in 1..Len(tier_order) : tier_order[i] = t
    THEN (CHOOSE i \in 1..Len(tier_order) : tier_order[i] = t) - 1
    ELSE -1

(***************************************************************************)
(* Deployers (deployers/docker.py, deployers/source.py) and Instance       *)
(* (core/instance.py).  The operations are functions of a state record     *)
(*   s = [repoBranch, instances, fileExists, proc, history, now]           *)
(* and return [st |-> the state afterwards, error |-> None or the          *)
(* exception raised].                                                      *)
(***************************************************************************)
Cur == [repoBranch |-> repoBranch, instances |-> instances, fileExists |-> fileExists,
        proc |-> proc, history |-> history, now |-> now]

Ok(s)       == [st |-> s, error |-> None]
Raise(s, e) == [st |-> s, error |-> e]

DeploymentType(s, n) == s.instances[n].deployment_type

\* DockerDeployer.status: `docker ps -a`; no output (also when the daemon is
\* unreachable) is "stopped", "Up ..." is running, "Exited ..." is stopped
DockerStatus(s, n) ==
    IF ~toolOk[DEPLOYMENT_DOCKER] THEN STATE_STOPPED
    ELSE IF s.proc[n] = "up" THEN STATE_RUNNING
    ELSE STATE_STOPPED

\* SourceDeployer.status: `systemctl is-active`
SourceStatus(s, n) ==
    IF ~s.fileExists[n] THEN STATE_STOPPED
    ELSE IF s.proc[n] = "up" THEN STATE_RUNNING
    ELSE IF s.proc[n] = "down" THEN STATE_STOPPED
    ELSE IF s.proc[n] = "failed" THEN STATE_ERROR
    ELSE STATE_UNKNOWN

\* Instance.status
InstanceStatus(s, n) ==
    IF DeploymentType(s, n) = DEPLOYMENT_DOCKER THEN DockerStatus(s, n) ELSE SourceStatus(s, n)

\* DockerDeployer.is_running: `docker ps` shows the container up
DockerIsRunning(s, n) == toolOk[DEPLOYMENT_DOCKER] /\ s.proc[n] = "up"

\* SourceDeployer.is_running
SourceIsRunning(s, n) == SourceStatus(s, n) = STATE_RUNNING

\* Instance.is_running
InstanceIsRunning(s, n) ==
    IF DeploymentType(s, n) = DEPLOYMENT_DOCKER THEN DockerIsRunning(s, n) ELSE SourceIsRunning(s, n)

\* DockerDeployer.create / SourceDeployer.create: writes the compose file or the
\* unit file; createOk = FALSE: a step of it (template, venv, pip) raises first
DeployerCreate(s, n, createOk) ==
    IF createOk THEN Ok([s EXCEPT !.fileExists[n] = TRUE])
    ELSE Raise(s, "DeploymentError")

\* a compose subcommand exits non-zero: the daemon is down or compose itself fails
ComposeFails == ~toolOk[DEPLOYMENT_DOCKER] \/ ~toolOk[COMPOSE]

\* DockerDeployer.stop without the check for the compose file
DockerStopNoFileCheck(s, n) ==
    IF ComposeFails THEN Raise(s, "DockerError")
    ELSE Ok([s EXCEPT !.proc[n] = IF @ = "up" THEN "down" ELSE @])

\* DockerDeployer.stop
DockerStop(s, n) ==
    IF ~s.fileExists[n] THEN Ok(s)
    ELSE IF ComposeFails THEN Raise(s, "DockerError")
    ELSE Ok([s EXCEPT !.proc[n] = IF @ = "up" THEN "down" ELSE @])

\* SourceDeployer.stop
SourceStop(s, n) ==
    IF ~s.fileExists[n] THEN Ok(s)
    ELSE IF ~toolOk[DEPLOYMENT_SOURCE] THEN Raise(s, "DeploymentError")
    ELSE Ok([s EXCEPT !.proc[n] = IF @ = "up" THEN "down" ELSE @])

\* Instance.stop
InstanceStop(s, n) ==
    IF DeploymentType(s, n) = DEPLOYMENT_DOCKER THEN DockerStop(s, n) ELSE SourceStop(s, n)

\* DockerDeployer.start: _ensure_docker, create the compose file if missing, `up -d`
DockerStart(s, n, createOk) ==
    IF ~toolOk[DEPLOYMENT_DOCKER] THEN Raise(s, "DockerError")
    ELSE LET c == IF s.fileExists[n] THEN Ok(s) ELSE DeployerCreate(s, n, createOk)
         IN  IF c.error # None THEN c
             ELSE IF ComposeFails THEN Raise(c.st, "DockerError")
             ELSE Ok([c.st EXCEPT !.proc[n] = "up"])

\* SourceDeployer.start: create if the unit file is missing, then systemctl start
SourceStart(s, n, createOk) ==
    LET c == IF s.fileExists[n] THEN Ok(s) ELSE DeployerCreate(s, n, createOk)
    IN  IF c.error # None THEN c
        ELSE IF ~toolOk[DEPLOYMENT_SOURCE] THEN Raise(c.st, "DeploymentError")
        ELSE Ok([c.st EXCEPT !.proc[n] = "up"])

\* Instance.start
InstanceStart(s, n, createOk) ==
    IF DeploymentType(s, n) = DEPLOYMENT_DOCKER THEN DockerStart(s, n, createOk)
    ELSE SourceStart(s, n, createOk)

\* DockerDeployer.restart: _ensure_docker, nothing without a compose file, else
\* `restart`, whose non-zero exit raises
DockerRestart(s, n) ==
    IF ~toolOk[DEPLOYMENT_DOCKER] THEN Raise(s, "DockerError")
    ELSE IF ~s.fileExists[n] THEN Ok(s)
    ELSE IF ComposeFails THEN Raise(s, "DockerError")
    ELSE Ok([s EXCEPT !.proc[n] = "up"])

\* SourceDeployer.restart
SourceRestart(s, n) ==
    IF ~s.fileExists[n] THEN Ok(s)
    ELSE IF ~toolOk[DEPLOYMENT_SOURCE] THEN Raise(s, "DeploymentError")
    ELSE Ok([s EXCEPT !.proc[n] = "up"])

\* Instance.restart
InstanceRestart(s, n) ==
    IF DeploymentType(s, n) = DEPLOYMENT_DOCKER THEN DockerRestart(s, n) ELSE SourceRestart(s, n)

\* InstanceManager.create_instance
create_instance(s, n, dtype, createOk) ==
    IF n \in DOMAIN s.instances THEN Raise(s, "InstanceAlreadyExistsError")
    ELSE LET cfg == [environment |-> None, git_branch |-> None, git_repo |-> None,
                     deployment_type |-> dtype]
             s1  == [s EXCEPT !.instances = [m \in DOMAIN s.instances \cup {n} |->
                                                IF m = n THEN cfg ELSE s.instances[m]]]
         IN  DeployerCreate(s1, n, createOk)

\* DockerDeployer.remove: `down -v` (its exit code is not looked at), then the
\* compose file is unlinked
DockerRemove(s, n) ==
    IF ~s.fileExists[n] THEN Ok(s)
    ELSE Ok([s EXCEPT !.proc[n] = IF ~ComposeFails THEN "down" ELSE @,
                      !.fileExists[n] = FALSE])

\* SourceDeployer.remove: systemctl stop and disable (exit codes not looked at),
\* then the unit file is unlinked
SourceRemove(s, n) ==
    IF ~s.fileExists[n] THEN Ok(s)
    ELSE Ok([s EXCEPT !.proc[n] = IF toolOk[DEPLOYMENT_SOURCE] THEN "down" ELSE @,
                      !.fileExists[n] = FALSE])

\* Instance.remove without the check for a running instance
InstanceRemoveUnchecked(s, n) ==
    IF DeploymentType(s, n) = DEPLOYMENT_DOCKER THEN DockerRemove(s, n) ELSE SourceRemove(s, n)

\* Instance.remove
InstanceRemove(s, n) ==
    IF InstanceIsRunning(s, n) THEN Raise(s, "InstanceStateError")
    ELSE IF DeploymentType(s, n) = DEPLOYMENT_DOCKER THEN DockerRemove(s, n)
    ELSE SourceRemove(s, n)

\* InstanceManager.remove_instance
remove_instance(s, n) ==
    IF n \notin DOMAIN s.instances THEN Raise(s, "InstanceNotFoundError")
    ELSE LET r == InstanceRemove(s, n)
         IN  IF r.error # None THEN r
             ELSE Ok([r.st EXCEPT !.instances = [m \in DOMAIN @ \ {n} |-> @[m]]])

(***************************************************************************)
(* GitManager (core/git.py)                                                *)
(***************************************************************************)
\* GitManager.checkout(name, branch): get_repo raises GitError for a missing
\* repository, repo.heads[branch] for a branch that is no local head
checkout(s, repo, branch) ==
    IF repo \notin Repos THEN Raise(s, "GitError")
    ELSE IF branch \notin RepoHeads(repo) THEN Raise(s, "GitError")
    ELSE Ok([s EXCEPT !.repoBranch[repo] = branch])

\* GitManager.pull(name, branch=branch): pullOk = FALSE: the remote pull fails
pull(s, repo, pullOk) ==
    IF repo \notin Repos THEN Raise(s, "GitError")
    ELSE IF ~pullOk THEN Raise(s, "GitError")
    ELSE Ok(s)

\* GitManager.get_status(name).branch: the active branch of the working tree;
\* "GitError" when the repository is missing
GitStatusBranch(s, repo) ==
    IF repo \notin Repos THEN "GitError" ELSE s.repoBranch[repo]

(***************************************************************************)
(* EnvironmentManager (core/environment.py)                                *)
(***************************************************************************)
\* EnvironmentManager._get_next_tier
get_next_tier(current_tier) ==
    LET idx == TierIndex(current_tier)
    IN  IF idx >= 0 /\ idx + 1 < Len(tier_order) THEN tier_order[idx + 2] ELSE None

\* the instances whose back-reference names the environment
BoundInstances(s, environment) ==
    { n \in DOMAIN s.instances : s.instances[n].environment = environment }

\* the deterministic name of the lazily created instance: f"odoo-{environment}"
OdooName(environment) ==
    CASE environment = "dev"        -> "odoo-dev"
      [] environment = "staging"    -> "odoo-staging"
      [] environment = "production" -> "odoo-production"

\* EnvironmentManager._get_instance_for_environment: [st, error, name]
get_instance_for_environment(s, environment, createOk) ==
    IF BoundInstances(s, environment) # {}
    THEN [st |-> s, error |-> None, name |-> CHOOSE n \in BoundInstances(s, environment) : TRUE]
    ELSE LET n == OdooName(environment)
             c == create_instance(s, n, DEPLOYMENT_DOCKER, createOk)
         IN  IF c.error # None THEN [st |-> c.st, error |-> c.error, name |-> None]
             ELSE [st |-> [c.st EXCEPT !.instances[n].environment = environment],
                   error |-> None, name |-> n]

\* "no DeploymentHistory": Python's None where a record is expected
NoRecord == [environment |-> None, branch |-> None, timestamp |-> -1]

\* the record appended by _record_deployment
DeploymentRecord(environment, branch, ts) ==
    [environment |-> environment, branch |-> branch, timestamp |-> ts]

\* _record_deployment that writes nothing
record_deployment_dropped(s, rec) == s

\* _record_deployment keeping the first 50 records instead of the last 50
record_deployment_keep_first(s, rec) ==
    [s EXCEPT !.history[rec.environment] = FirstN(Append(@, rec), HISTORY_CAP)]

\* EnvironmentManager._record_deployment: append, keep only the last 50, write back
record_deployment(s, rec) ==
    [s EXCEPT !.history[rec.environment] = LastN(Append(@, rec), HISTORY_CAP)]

\* Python's stable list.sort(key=timestamp, reverse=True), as an insertion sort
RECURSIVE SortDesc(_)
InsertDesc(sorted, r) ==
    LET k == Cardinality({ i \in 1..Len(sorted) : sorted[i].timestamp >= r.timestamp })
    IN  SubSeq(sorted, 1, k) \o <<r>> \o SubSeq(sorted, k + 1, Len(sorted))
SortDesc(recs) ==
    IF recs = <<>> THEN <<>>
    ELSE InsertDesc(SortDesc(SubSeq(recs, 1, Len(recs) - 1)), recs[Len(recs)])

\* get_deployment_history without the sort: the records in file order
get_deployment_history_unsorted(s, environment, limit) ==
    FirstN(s.history[environment], limit)

\* EnvironmentManager.get_deployment_history(environment, limit)
get_deployment_history(s, environment, limit) ==
    FirstN(SortDesc(s.history[environment]), limit)

\* EnvironmentManager._get_last_deployment: the record, or None
get_last_deployment(s, environment) ==
    LET h == get_deployment_history(s, environment, 1)
    IN  IF h = <<>> THEN NoRecord ELSE h[1]

\* EnvironmentManager.get_status(name).git_branch
StatusGitBranch(s, name) ==
    LET repo == environments[name].git_repo
    IN  IF repo = None THEN None
        ELSE IF GitStatusBranch(s, repo) = "GitError" THEN None
        ELSE GitStatusBranch(s, repo)

\* deploy's restart step with the check left out: the instance is restarted
\* whether it runs or not
restart_always(s, n) ==
    [st |-> InstanceRestart(s, n).st, error |-> InstanceRestart(s, n).error, called |-> TRUE]

\* deploy's restart step: `if instance.is_running(): instance.restart()`;
\* [st, error, called]
restart_if_running(s, n) ==
    IF InstanceIsRunning(s, n)
    THEN [st |-> InstanceRestart(s, n).st, error |-> InstanceRestart(s, n).error, called |-> TRUE]
    ELSE [st |-> s, error |-> None, called |-> FALSE]

\* EnvironmentManager.deploy(environment, branch, repo): [st, error, record]
EnvDeploy(s, environment, branch, repo, pullOk, createOk) ==
    LET repo_name == IF repo # None THEN repo ELSE environments[environment].git_repo
        fail(st, e) == [st |-> st, error |-> e, record |-> NoRecord, restart_called |-> FALSE]
    IN  IF environment \notin DOMAIN environments THEN fail(s, "EnvironmentNotFoundError")
        ELSE IF repo_name = None THEN fail(s, "NoRepository")
        ELSE
        LET co == checkout(s, repo_name, branch) IN
        IF co.error # None THEN fail(co.st, co.error) ELSE
        LET pl == pull(co.st, repo_name, pullOk) IN
        IF pl.error # None THEN fail(pl.st, pl.error) ELSE
        LET gi == get_instance_for_environment(pl.st, environment, createOk) IN
        IF gi.error # None THEN fail(gi.st, gi.error) ELSE
        LET s1 == [gi.st EXCEPT !.instances[gi.name].git_branch = branch,
                                !.instances[gi.name].git_repo = repo_name]
            rs == restart_if_running(s1, gi.name)
        IN
        IF rs.error # None THEN [fail(rs.st, rs.error) EXCEPT !.restart_called = rs.called] ELSE
        LET rec == DeploymentRecord(environment, branch, rs.st.now)
            s2  == record_deployment(rs.st, rec)
        IN  [st |-> [s2 EXCEPT !.now = @ + 1], error |-> None, record |-> rec,
             restart_called |-> rs.called]

\* promote with the tier comparison weakened from <= to <
EnvPromoteSameTier(s, source_env, target_env, pullOk, createOk) ==
    LET fail(e) == [st |-> s, error |-> e, record |-> NoRecord, target |-> target_env,
                    branch |-> None, reached |-> FALSE]
        source == environments[source_env]
        git_branch == StatusGitBranch(s, source_env)
        tgt == IF target_env = None THEN get_next_tier(source.tier) ELSE target_env
    IN  IF git_branch = None THEN fail("NoBranchDeployed")
        ELSE IF tgt = None THEN fail("CannotPromoteFromTier")
        ELSE IF TierIndex(environments[tgt].tier) < TierIndex(source.tier)
             THEN [fail("MustMoveForward") EXCEPT !.target = tgt]
        ELSE LET d == EnvDeploy(s, tgt, git_branch, source.git_repo, pullOk, createOk)
             IN  [st |-> d.st, error |-> d.error, record |-> d.record, target |-> tgt,
                  branch |-> git_branch, reached |-> TRUE]

\* EnvironmentManager.promote(source_env, target_env):
\* [st, error, record, target, branch, reached]; reached: the deploy step was called
EnvPromote(s, source_env, target_env, pullOk, createOk) ==
    LET fail(e) == [st |-> s, error |-> e, record |-> NoRecord, target |-> target_env,
                    branch |-> None, reached |-> FALSE]
    IN  IF source_env \notin DOMAIN environments THEN fail("EnvironmentNotFoundError")
        ELSE
        LET source == environments[source_env]
            git_branch == StatusGitBranch(s, source_env)
            tgt == IF target_env = None THEN get_next_tier(source.tier) ELSE target_env
        IN  IF git_branch = None THEN fail("NoBranchDeployed")
            ELSE IF tgt = None THEN fail("CannotPromoteFromTier")
            ELSE IF tgt \notin DOMAIN environments THEN fail("EnvironmentNotFoundError")
            ELSE IF TierIndex(environments[tgt].tier) <= TierIndex(source.tier)
                 THEN [fail("MustMoveForward") EXCEPT !.target = tgt]
            ELSE LET d == EnvDeploy(s, tgt, git_branch, source.git_repo, pullOk, createOk)
                 IN  [st |-> d.st, error |-> d.error, record |-> d.record, target |-> tgt,
                      branch |-> git_branch, reached |-> TRUE]

(***************************************************************************)
(* Initial state and the actions on environments and instances             *)
(***************************************************************************)
NoEnvRes == [op |-> "init", arg |-> None, targetArg |-> None, target |-> None, branch |-> None,
             error |-> None, reached |-> FALSE, limit |-> 0, ret |-> <<>>,
             repo |-> None, auto_start |-> TRUE, restart_called |-> FALSE]

EnvInit ==
    /\ environments \in EnvRegistries
    /\ repoBranch = [r \in Repos |-> "main"]
    /\ instances = [n \in {} |-> NoRecord]
    /\ fileExists = [n \in InstNames |-> FALSE]
    /\ proc = [n \in InstNames |-> "down"]
    /\ toolOk = [t \in {DEPLOYMENT_DOCKER, DEPLOYMENT_SOURCE, COMPOSE} |-> TRUE]
    /\ history = [e \in EnvNames |-> <<>>]
    /\ now = 0
    /\ envRes = NoEnvRes

\* the state record written back to the variables
SetState(s) ==
    /\ repoBranch' = s.repoBranch
    /\ instances' = s.instances
    /\ fileExists' = s.fileExists
    /\ proc' = s.proc
    /\ history' = s.history
    /\ now' = s.now

OtherThanEnv ==
    UNCHANGED <<pipeRes, restart_history, arRes, healthRes, tasks, jobs, schedRes, daemonVars, deploys>>

\* EnvironmentManager.deploy(environment, branch, repo)
Deploy(environment, branch, repo, pullOk, createOk) ==
    \E d \in {EnvDeploy(Cur, environment, branch, repo, pullOk, createOk)} :
        /\ SetState(d.st)
        /\ envRes' = [NoEnvRes EXCEPT !.op = "deploy", !.arg = environment, !.target = environment,
                                      !.branch = branch, !.error = d.error,
                                      !.reached = TRUE]
        /\ UNCHANGED <<environments, toolOk>>
        /\ OtherThanEnv

\* EnvironmentManager.deploy(environment, branch, repo, auto_start): the body
\* never reads auto_start
DeployAuto(environment, branch, repo, auto_start, pullOk, createOk) ==
    \E d \in {EnvDeploy(Cur, environment, branch, repo, pullOk, createOk)} :
        /\ SetState(d.st)
        /\ envRes' = [NoEnvRes EXCEPT !.op = "deploy", !.arg = environment, !.target = environment,
                                      !.branch = branch, !.error = d.error, !.reached = TRUE,
                                      !.repo = repo, !.auto_start = auto_start,
                                      !.restart_called = d.restart_called]
        /\ UNCHANGED <<environments, toolOk>>
        /\ OtherThanEnv

\* EnvironmentManager.promote(source_env, target_env)
Promote(source_env, target_env, pullOk, createOk) ==
    \E d \in {EnvPromote(Cur, source_env, target_env, pullOk, createOk)} :
        /\ SetState(d.st)
        /\ envRes' = [NoEnvRes EXCEPT !.op = "promote", !.arg = source_env, !.target = d.target,
                                      !.branch = d.branch, !.targetArg = target_env,
                                      !.error = d.error,
                                      !.reached = d.reached]
        /\ UNCHANGED <<environments, toolOk>>
        /\ OtherThanEnv

\* EnvironmentManager.get_deployment_history(environment, limit)
GetHistory(environment, limit) ==
    /\ envRes' = [NoEnvRes EXCEPT !.op = "history", !.arg = environment, !.limit = limit,
                                  !.ret = get_deployment_history(Cur, environment, limit)]
    /\ UNCHANGED <<environments, repoBranch, instances, fileExists, proc, toolOk, history, now>>
    /\ OtherThanEnv

\* InstanceManager.create_instance(name, deployment_type=dtype)
CreateInstance(n, dtype, createOk) ==
    \E c \in {create_instance(Cur, n, dtype, createOk)} :
        /\ SetState(c.st)
        /\ envRes' = [NoEnvRes EXCEPT !.op = "create", !.arg = n, !.error = c.error]
        /\ UNCHANGED <<environments, toolOk>>
        /\ OtherThanEnv

\* Instance.start on a registered instance
StartInstance(n, createOk) ==
    /\ n \in DOMAIN instances
    /\ \E r \in {InstanceStart(Cur, n, createOk)} :
           /\ SetState(r.st)
           /\ envRes' = [NoEnvRes EXCEPT !.op = "start", !.arg = n, !.error = r.error]
    /\ UNCHANGED <<environments, toolOk>>
    /\ OtherThanEnv

\* Instance.stop on a registered instance; ret records the status before the call
StopInstance(n) ==
    /\ n \in DOMAIN instances
    /\ \E r \in {InstanceStop(Cur, n)} :
           /\ SetState(r.st)
           /\ envRes' = [NoEnvRes EXCEPT !.op = "stop", !.arg = n, !.error = r.error,
                                         !.ret = <<InstanceStatus(Cur, n)>>]
    /\ UNCHANGED <<environments, toolOk>>
    /\ OtherThanEnv

\* Instance.restart on a registered instance
RestartInstance(n) ==
    /\ n \in DOMAIN instances
    /\ \E r \in {InstanceRestart(Cur, n)} :
           /\ SetState(r.st)
           /\ envRes' = [NoEnvRes EXCEPT !.op = "restart", !.arg = n, !.error = r.error]
    /\ UNCHANGED <<environments, toolOk>>
    /\ OtherThanEnv

\* InstanceManager.remove_instance(name)
RemoveInstance(n) ==
    \E r \in {remove_instance(Cur, n)} :
        /\ SetState(r.st)
        /\ envRes' = [NoEnvRes EXCEPT !.op = "remove", !.arg = n, !.error = r.error]
        /\ UNCHANGED <<environments, toolOk>>
        /\ OtherThanEnv

\* the workload dies on its own (container exits, service fails)
Crash(n) ==
    /\ n \in DOMAIN instances
    /\ proc[n] = "up"
    /\ proc' = [proc EXCEPT ![n] = "failed"]
    /\ envRes' = [NoEnvRes EXCEPT !.op = "crash", !.arg = n]
    /\ UNCHANGED <<environments, repoBranch, instances, fileExists, toolOk, history, now>>
    /\ OtherThanEnv

\* the docker daemon stops (its containers with it) / systemctl calls start
\* failing / compose commands start failing
ToolDown(t) ==
    /\ toolOk[t]
    /\ toolOk' = [toolOk EXCEPT ![t] = FALSE]
    /\ proc' = [n \in InstNames |->
                  IF t = DEPLOYMENT_DOCKER /\ n \in DOMAIN instances
                     /\ instances[n].deployment_type = DEPLOYMENT_DOCKER /\ proc[n] = "up"
                  THEN "down" ELSE proc[n]]
    /\ envRes' = [NoEnvRes EXCEPT !.op = "tooldown", !.arg = t]
    /\ UNCHANGED <<environments, repoBranch, instances, fileExists, history, now>>
    /\ OtherThanEnv

\* the docker daemon is started again / systemctl calls succeed again
ToolUp(t) ==
    /\ ~toolOk[t]
    /\ toolOk' = [toolOk EXCEPT ![t] = TRUE]
    /\ envRes' = [NoEnvRes EXCEPT !.op = "toolup", !.arg = t]
    /\ UNCHANGED <<environments, repoBranch, instances, fileExists, proc, history, now>>
    /\ OtherThanEnv

(***************************************************************************)
(* AutoRestart (core/monitor.py)                                           *)
(***************************************************************************)
\* dict assignment d[k] = v
Put(f, k, v) == [x \in DOMAIN f \cup {k} |-> IF x = k THEN v ELSE f[x]]

\* [t for t in times if (now - t).total_seconds() < self.restart_window]
InWindow(times, t_now) == SelectSeq(times, LAMBDA t : t_now - t < restart_window)

\* should_restart allowing a restart when the count equals max_restarts
should_restart_at_limit(rh, instance_name, t_now) ==
    LET rh1 == IF instance_name \in DOMAIN rh THEN rh ELSE Put(rh, instance_name, <<>>)
        rh2 == Put(rh1, instance_name, InWindow(rh1[instance_name], t_now))
    IN  [rh |-> rh2, ret |-> Len(rh2[instance_name]) <= max_restarts]

\* AutoRestart.should_restart: [rh |-> restart_history afterwards, ret |-> result]
should_restart(rh, instance_name, t_now) ==
    LET rh1 == IF instance_name \in DOMAIN rh THEN rh ELSE Put(rh, instance_name, <<>>)
        rh2 == Put(rh1, instance_name, InWindow(rh1[instance_name], t_now))
    IN  [rh |-> rh2, ret |-> Len(rh2[instance_name]) < max_restarts]

\* AutoRestart.record_restart: restart_history afterwards
record_restart(rh, instance_name, t_now) ==
    LET rh1 == IF instance_name \in DOMAIN rh THEN rh ELSE Put(rh, instance_name, <<>>)
    IN  Put(rh1, instance_name, Append(rh1[instance_name], t_now))

\* get_restart_count counting every stored restart
get_restart_count_all(rh, instance_name, t_now) ==
    IF instance_name \notin DOMAIN rh THEN 0 ELSE Len(rh[instance_name])

\* AutoRestart.get_restart_count
get_restart_count(rh, instance_name, t_now) ==
    IF instance_name \notin DOMAIN rh THEN 0 ELSE Len(InWindow(rh[instance_name], t_now))

NoArRes == [op |-> "init", name |-> None, ret |-> FALSE, count |-> 0]

ARInit == restart_history = [n \in {} |-> <<>>] /\ arRes = NoArRes

OtherThanAR ==
    UNCHANGED <<environments, repoBranch, instances, fileExists, proc, toolOk, history, envRes,
                pipeRes, healthRes, tasks, jobs, schedRes, daemonVars, deploys>>

\* the number of restarts stored for all names
Recorded == LET RECURSIVE Sum(_)
                Sum(S) == IF S = {} THEN 0
                          ELSE LET n == CHOOSE x \in S : TRUE
                               IN  Len(restart_history[n]) + Sum(S \ {n})
            IN  Sum(DOMAIN restart_history)

ShouldRestart(instance_name) ==
    \E r \in {should_restart(restart_history, instance_name, now)} :
        /\ restart_history' = r.rh
        /\ arRes' = [NoArRes EXCEPT !.op = "should_restart", !.name = instance_name, !.ret = r.ret]
        /\ UNCHANGED now
        /\ OtherThanAR

RecordRestart(instance_name) ==
    /\ restart_history' = record_restart(restart_history, instance_name, now)
    /\ arRes' = [NoArRes EXCEPT !.op = "record_restart", !.name = instance_name]
    /\ UNCHANGED now
    /\ OtherThanAR

GetRestartCount(instance_name) ==
    /\ arRes' = [NoArRes EXCEPT !.op = "get_restart_count", !.name = instance_name,
                                !.count = get_restart_count(restart_history, instance_name, now)]
    /\ UNCHANGED <<restart_history, now>>
    /\ OtherThanAR

\* the caller's steps after should_restart returned true: start(), which ends at
\* the instant t, then record_restart
RecordAfterStart(instance_name, t) ==
    /\ arRes.op = "should_restart" /\ arRes.name = instance_name /\ arRes.ret
    /\ t >= now
    /\ now' = t
    /\ restart_history' = record_restart(restart_history, instance_name, t)
    /\ arRes' = [NoArRes EXCEPT !.op = "record_restart", !.name = instance_name]
    /\ OtherThanAR

\* time passes between two calls
Tick(t) ==
    /\ t > now
    /\ now' = t
    /\ arRes' = [NoArRes EXCEPT !.op = "tick"]
    /\ UNCHANGED restart_history
    /\ OtherThanAR

(***************************************************************************)
(* HealthMonitor (core/monitor.py)                                         *)
(***************************************************************************)
HealthCheckResult(name, status) == [name |-> name, status |-> status]

\* HealthMonitor._check_instance_status
check_instance_status(probe) ==
    HealthCheckResult("Instance Status",
        CASE probe = "running"     -> HEALTHY
          [] probe = "not_running" -> CRITICAL
          [] OTHER                 -> UNKNOWN)

\* HealthMonitor._check_database
check_database(probe) ==
    HealthCheckResult("Database",
        CASE probe = "connected" -> HEALTHY
          [] probe = "refused"   -> CRITICAL
          [] OTHER               -> WARNING)

\* HealthMonitor._check_http_endpoint
check_http_endpoint(probe) ==
    HealthCheckResult("HTTP Endpoint",
        CASE probe = "ok"         -> HEALTHY
          [] probe = "other_code" -> WARNING
          [] probe = "timeout"    -> WARNING
          [] OTHER                -> UNKNOWN)

\* one of the three threshold blocks of _check_resources
Threshold(status, value, critical, warning) ==
    IF value >= critical THEN CRITICAL
    ELSE IF value >= warning THEN (IF status # CRITICAL THEN WARNING ELSE status)
    ELSE status

\* HealthMonitor._check_resources
check_resources(stats) ==
    HealthCheckResult("Resources",
        IF stats.raises THEN UNKNOWN
        ELSE LET s1 == Threshold(HEALTHY, stats.cpu, cpu_critical, cpu_warning)
                 s2 == Threshold(s1, stats.memory_percent, memory_critical, memory_warning)
             IN  Threshold(s2, stats.disk_percent, disk_critical, disk_warning))

\* HealthMonitor._check_log_errors
check_log_errors(logs) ==
    HealthCheckResult("Log Errors",
        IF logs.raises THEN UNKNOWN
        ELSE IF logs.errors > LOG_ERROR_LIMIT THEN CRITICAL
        ELSE IF logs.warnings > LOG_WARNING_LIMIT THEN WARNING
        ELSE HEALTHY)

\* the overall status with warning taking precedence over critical
OverallStatusWarningFirst(checks) ==
    IF \E i \in 1..Len(checks) : checks[i].status = WARNING THEN WARNING
    ELSE IF \E i \in 1..Len(checks) : checks[i].status = CRITICAL THEN CRITICAL
    ELSE HEALTHY

\* check_instance, "Determine overall status"
OverallStatus(checks) ==
    IF \E i \in 1..Len(checks) : checks[i].status = CRITICAL THEN CRITICAL
    ELSE IF \E i \in 1..Len(checks) : checks[i].status = WARNING THEN WARNING
    ELSE HEALTHY

\* the thresholds given to HealthMonitor.__init__, with its defaults
Thresholds(cw, cc, mw, mc, dw, dc) ==
    [cpu_warning |-> cw, cpu_critical |-> cc, memory_warning |-> mw,
     memory_critical |-> mc, disk_warning |-> dw, disk_critical |-> dc]
DefaultThresholds ==
    Thresholds(cpu_warning, cpu_critical, memory_warning, DEFAULT_MEMORY_CRITICAL,
               disk_warning, disk_critical)

\* HealthMonitor.__init__: the attributes of the monitor built from the arguments
HealthMonitor(a) ==
    [cpu_warning |-> a.cpu_warning, cpu_critical |-> a.cpu_critical,
     memory_warning |-> a.memory_warning, memory_critical |-> a.memory_warning,
     disk_warning |-> a.disk_warning, disk_critical |-> a.disk_critical]

\* HealthMonitor._check_resources of the monitor m
check_resources_of(m, stats) ==
    HealthCheckResult("Resources",
        IF stats.raises THEN UNKNOWN
        ELSE LET s1 == Threshold(HEALTHY, stats.cpu, m.cpu_critical, m.cpu_warning)
                 s2 == Threshold(s1, stats.memory_percent, m.memory_critical, m.memory_warning)
             IN  Threshold(s2, stats.disk_percent, m.disk_critical, m.disk_warning))

\* the InstanceHealth of the dataclass defaults
InstanceHealth(n) ==
    [op |-> "check_instance", instance_name |-> n, running |-> FALSE, status |-> UNKNOWN,
     checks |-> <<>>, cpu_percent |-> 0, memory_mb |-> 0, memory_percent |-> 0,
     disk_percent |-> 0, ran |-> {}, passed |-> DefaultThresholds,
     stats |-> [raises |-> TRUE, cpu |-> 0, memory_mb |-> 0, memory_percent |-> 0,
                disk_percent |-> 0]]

\* the five checks, run whatever is_running answers
all_checks(n, running, statusProbe, dbProbe, httpProbe, stats, logs) ==
    LET checks == << check_instance_status(statusProbe), check_database(dbProbe),
                     check_http_endpoint(httpProbe), check_resources(stats),
                     check_log_errors(logs) >>
    IN  [InstanceHealth(n) EXCEPT
            !.running = running, !.status = OverallStatus(checks), !.checks = checks,
            !.cpu_percent = IF stats.raises THEN 0 ELSE stats.cpu,
            !.memory_mb = IF stats.raises THEN 0 ELSE stats.memory_mb,
            !.memory_percent = IF stats.raises THEN 0 ELSE stats.memory_percent,
            !.disk_percent = IF stats.raises THEN 0 ELSE stats.disk_percent,
            !.ran = {"_check_instance_status", "_check_database", "_check_http_endpoint",
                     "_check_resources", "_check_log_errors"}]

\* check_instance without the early return for an instance that is not running
check_instance_no_short_circuit(s, n, statusProbe, dbProbe, httpProbe, stats, logs) ==
    all_checks(n, InstanceIsRunning(s, n), statusProbe, dbProbe, httpProbe, stats, logs)

\* HealthMonitor.check_instance: the InstanceHealth returned
check_instance(s, n, statusProbe, dbProbe, httpProbe, stats, logs) ==
    IF ~InstanceIsRunning(s, n)
    THEN [InstanceHealth(n) EXCEPT
             !.status = CRITICAL,
             !.checks = <<HealthCheckResult("Instance Status", CRITICAL)>>]
    ELSE all_checks(n, TRUE, statusProbe, dbProbe, httpProbe, stats, logs)

NoHealth == [InstanceHealth(None) EXCEPT !.op = None]

MonInit == healthRes = NoHealth

CheckInstance(n, statusProbe, dbProbe, httpProbe, stats, logs) ==
    /\ n \in DOMAIN instances
    /\ healthRes' = check_instance(Cur, n, statusProbe, dbProbe, httpProbe, stats, logs)
    /\ UNCHANGED <<envVars, pipeRes, restart_history, arRes, tasks, jobs, schedRes, daemonVars, deploys>>

\* a monitor is built from the thresholds passed and its resource check is run
CheckResources(passed, stats) ==
    /\ healthRes' = [NoHealth EXCEPT
                        !.op = "check_resources", !.passed = passed, !.stats = stats,
                        !.checks = <<check_resources_of(HealthMonitor(passed), stats)>>]
    /\ UNCHANGED <<envVars, pipeRes, restart_history, arRes, tasks, jobs, schedRes, daemonVars, deploys>>

(***************************************************************************)
(* SchedulerManager (core/scheduler.py)                                    *)
(***************************************************************************)
\* Python's str.split(): the maximal runs of non-whitespace characters
RECURSIVE SplitFrom(_, _, _)
SplitFrom(chars, cur, acc) ==
    IF chars = <<>> THEN (IF cur = <<>> THEN acc ELSE Append(acc, cur))
    ELSE IF Head(chars) = " "
         THEN SplitFrom(Tail(chars), <<>>, IF cur = <<>> THEN acc ELSE Append(acc, cur))
         ELSE SplitFrom(Tail(chars), Append(cur, Head(chars)), acc)
Split(chars) == SplitFrom(chars, <<>>, <<>>)

\* CronTrigger(minute=, hour=, day=, month=, day_of_week=) accepts the fields
CronTriggerOk(parts) ==
    \A i \in 1..Len(parts) : \A j \in 1..Len(parts[i]) : parts[i][j] \in CronChars

ScheduledTask(task_id, func, cron_expression, kwargs) ==
    [task_id |-> task_id, func |-> func, cron_expression |-> cron_expression,
     kwargs |-> kwargs]

\* no task, no job, no call
NoTask == ScheduledTask(None, None, <<>>, None)
NoJob  == [id |-> None, func |-> None, kwargs |-> None, trigger |-> <<>>]
NoCall == [func |-> None, kwargs |-> None]

\* add_task that leaves a registered id as it is
add_task_keep_existing(tk, jb, task_id, func, cron_expression, kwargs) ==
    LET parts == Split(cron_expression)
        tk1   == IF task_id \in DOMAIN tk THEN tk
                 ELSE Put(tk, task_id, ScheduledTask(task_id, func, cron_expression, kwargs))
    IN  IF Len(parts) # 5 \/ ~CronTriggerOk(parts)
        THEN [tasks |-> tk1, jobs |-> jb, error |-> "ValueError"]
        ELSE [tasks |-> tk1,
              jobs |-> IF task_id \in DOMAIN jb THEN jb
                       ELSE Put(jb, task_id, [id |-> task_id, func |-> func,
                                              kwargs |-> kwargs, trigger |-> parts]),
              error |-> None]

\* SchedulerManager.add_task: [tasks, jobs, error]; add_job is called with
\* id=task_id and replace_existing=True: the job table holds one job per id
add_task(tk, jb, task_id, func, cron_expression, kwargs) ==
    LET tk1   == Put(tk, task_id, ScheduledTask(task_id, func, cron_expression, kwargs))
        parts == Split(cron_expression)
    IN  IF Len(parts) # 5 THEN [tasks |-> tk1, jobs |-> jb, error |-> "ValueError"]
        ELSE IF ~CronTriggerOk(parts) THEN [tasks |-> tk1, jobs |-> jb, error |-> "ValueError"]
        ELSE [tasks |-> tk1,
              jobs |-> Put(jb, task_id, [id |-> task_id, func |-> func, kwargs |-> kwargs,
                                         trigger |-> parts]),
              error |-> None]

\* del d[k]
Del(f, k) == [x \in DOMAIN f \ {k} |-> f[x]]

\* SchedulerManager.remove_task: [tasks, jobs, error]
remove_task(tk, jb, task_id) ==
    LET tk1 == IF task_id \in DOMAIN tk THEN Del(tk, task_id) ELSE tk
    IN  IF task_id \notin DOMAIN jb THEN [tasks |-> tk1, jobs |-> jb, error |-> "SchedulerError"]
        ELSE [tasks |-> tk1, jobs |-> Del(jb, task_id), error |-> None]

\* SchedulerManager.list_tasks: the ids of the scheduler's jobs
list_tasks(jb) == DOMAIN jb

\* SchedulerManager.get_task: the task, or None
get_task(tk, task_id) == IF task_id \in DOMAIN tk THEN tk[task_id] ELSE NoTask

\* SchedulerManager.run_task_now: the error raised, or None when the function ran
run_task_now(tk, task_id, funcOk) ==
    IF task_id \notin DOMAIN tk THEN "SchedulerError"
    ELSE IF ~funcOk THEN "TaskError"
    ELSE None

\* run_task_now: the call `task.func(**task.kwargs)` (`task.func()` without kwargs)
task_call(tk, task_id) ==
    IF task_id \in DOMAIN tk THEN [func |-> tk[task_id].func, kwargs |-> tk[task_id].kwargs]
    ELSE NoCall

\* the dispatcher's call of a job: job.func(**job.kwargs)
job_call(jb, task_id) ==
    IF task_id \in DOMAIN jb THEN [func |-> jb[task_id].func, kwargs |-> jb[task_id].kwargs]
    ELSE NoCall

NoSchedRes == [op |-> "init", id |-> None, expr |-> <<>>, error |-> None, listed |-> {},
               task |-> NoTask, pid |-> None, ret |-> FALSE, call |-> NoCall,
               replaced |-> NoCall, logged |-> None]

SchedInit ==
    /\ tasks = [i \in {} |-> NoTask]
    /\ jobs = [i \in {} |-> NoJob]
    /\ schedRes = NoSchedRes

OtherThanSched == UNCHANGED <<envVars, pipeRes, restart_history, arRes, healthRes, daemonVars, deploys>>

AddTask(task_id, func, cron_expression, kwargs) ==
    \E r \in {add_task(tasks, jobs, task_id, func, cron_expression, kwargs)} :
        /\ tasks' = r.tasks
        /\ jobs' = r.jobs
        /\ schedRes' = [NoSchedRes EXCEPT !.op = "add_task", !.id = task_id,
                                          !.expr = cron_expression, !.error = r.error,
                                          !.call = [func |-> func, kwargs |-> kwargs],
                                          !.replaced = task_call(tasks, task_id)]
        /\ OtherThanSched

RemoveTask(task_id) ==
    \E r \in {remove_task(tasks, jobs, task_id)} :
        /\ tasks' = r.tasks
        /\ jobs' = r.jobs
        /\ schedRes' = [NoSchedRes EXCEPT !.op = "remove_task", !.id = task_id, !.error = r.error]
        /\ OtherThanSched

ListTasks ==
    /\ schedRes' = [NoSchedRes EXCEPT !.op = "list_tasks", !.listed = list_tasks(jobs)]
    /\ UNCHANGED <<tasks, jobs>>
    /\ OtherThanSched

GetTask(task_id) ==
    /\ schedRes' = [NoSchedRes EXCEPT !.op = "get_task", !.id = task_id,
                                      !.task = get_task(tasks, task_id)]
    /\ UNCHANGED <<tasks, jobs>>
    /\ OtherThanSched

RunTaskNow(task_id, funcOk) ==
    /\ schedRes' = [NoSchedRes EXCEPT !.op = "run_task_now", !.id = task_id,
                                      !.error = run_task_now(tasks, task_id, funcOk),
                                      !.call = task_call(tasks, task_id)]
    /\ UNCHANGED <<tasks, jobs>>
    /\ OtherThanSched

(***************************************************************************)
(* The scheduler daemon: start, stop, is_running (core/scheduler.py).      *)
(* Several processes share the pid file; start() is taken in the steps     *)
(* between which another process can run: the is_running check, the write  *)
(* of the pid file, scheduler.start().                                     *)
(***************************************************************************)
\* SchedulerManager.is_running: [ret, pid_file]; os.kill(pid, 0) fails for a
\* process that no longer exists, and the stale file is unlinked
is_running(pf, ps) ==
    IF pf = None THEN [ret |-> FALSE, pid_file |-> pf]
    ELSE IF ps[pf].alive THEN [ret |-> TRUE, pid_file |-> pf]
    ELSE [ret |-> FALSE, pid_file |-> None]

DaemonInit ==
    /\ pid_file = None
    /\ procs = [p \in Pids |-> [pc |-> "idle", alive |-> TRUE, running |-> FALSE]]
    /\ executions = [i \in TaskIds |-> [cron |-> 0, manual |-> 0]]

OtherThanDaemon ==
    UNCHANGED <<envVars, pipeRes, restart_history, arRes, healthRes, tasks, jobs, deploys>>

\* start(), first step: `if self.is_running(): raise SchedulerError`
StartCheck(p) ==
    /\ procs[p].alive /\ procs[p].pc = "idle"
    /\ \E r \in {is_running(pid_file, procs)} :
          /\ pid_file' = r.pid_file
          /\ procs' = [procs EXCEPT ![p].pc = IF r.ret THEN "idle" ELSE "checked"]
          /\ schedRes' = [NoSchedRes EXCEPT !.op = "start", !.pid = p, !.ret = r.ret,
                                            !.error = IF r.ret THEN "SchedulerError" ELSE None]
    /\ UNCHANGED executions
    /\ OtherThanDaemon

\* start(), second step: the pid file is written
StartWrite(p) ==
    /\ procs[p].alive /\ procs[p].pc = "checked"
    /\ pid_file' = p
    /\ procs' = [procs EXCEPT ![p].pc = "written"]
    /\ schedRes' = [NoSchedRes EXCEPT !.op = "start_write", !.pid = p]
    /\ UNCHANGED executions
    /\ OtherThanDaemon

\* start(), last step: self.scheduler.start(), which raises if this process's
\* scheduler is running already
StartScheduler(p) ==
    /\ procs[p].alive /\ procs[p].pc = "written"
    /\ procs' = [procs EXCEPT ![p].pc = "idle", ![p].running = TRUE]
    /\ schedRes' = [NoSchedRes EXCEPT !.op = "started", !.pid = p,
                       !.error = IF procs[p].running THEN "SchedulerAlreadyRunningError"
                                 ELSE None]
    /\ UNCHANGED <<pid_file, executions>>
    /\ OtherThanDaemon

\* SchedulerManager.stop
StopScheduler(p) ==
    /\ procs[p].alive /\ procs[p].pc = "idle"
    /\ IF ~procs[p].running
       THEN /\ schedRes' = [NoSchedRes EXCEPT !.op = "stop", !.pid = p,
                                              !.error = "SchedulerError"]
            /\ UNCHANGED <<pid_file, procs>>
       ELSE /\ procs' = [procs EXCEPT ![p].running = FALSE]
            /\ pid_file' = None
            /\ schedRes' = [NoSchedRes EXCEPT !.op = "stop", !.pid = p]
    /\ UNCHANGED executions
    /\ OtherThanDaemon

\* SchedulerManager.is_running called by process p
IsRunning(p) ==
    /\ procs[p].alive /\ procs[p].pc = "idle"
    /\ \E r \in {is_running(pid_file, procs)} :
          /\ pid_file' = r.pid_file
          /\ schedRes' = [NoSchedRes EXCEPT !.op = "is_running", !.pid = p, !.ret = r.ret]
    /\ UNCHANGED <<procs, executions>>
    /\ OtherThanDaemon

\* a process ends without calling stop (killed, crashed): the pid file stays
ProcessExit(p) ==
    /\ procs[p].alive
    /\ procs' = [procs EXCEPT ![p] = [pc |-> "idle", alive |-> FALSE, running |-> FALSE]]
    /\ schedRes' = [NoSchedRes EXCEPT !.op = "exit", !.pid = p]
    /\ UNCHANGED <<pid_file, executions>>
    /\ OtherThanDaemon

\* SchedulerManager.stop on a manager whose scheduler.running is `running`:
\* [running, pid_file, error]
stop(running, pf) ==
    IF ~running THEN [running |-> running, pid_file |-> pf, error |-> "SchedulerError"]
    ELSE [running |-> FALSE, pid_file |-> None, error |-> None]

\* SIGTERM or SIGINT reaches the standalone daemon p in its sleep loop
Signal(p) ==
    /\ procs[p].alive /\ procs[p].pc = "idle" /\ procs[p].running
    /\ procs' = [procs EXCEPT ![p].pc = "signalled"]
    /\ schedRes' = [NoSchedRes EXCEPT !.op = "signal", !.pid = p]
    /\ UNCHANGED <<pid_file, executions>>
    /\ OtherThanDaemon

\* run_scheduler_daemon's signal_handler: it builds a new SchedulerManager, whose
\* scheduler was never started, and calls stop() on it if is_running(); the
\* process then ends, by sys.exit(0) or by the SchedulerError stop() raised
SignalHandler(p) ==
    /\ procs[p].alive /\ procs[p].pc = "signalled"
    /\ \E r \in {is_running(pid_file, procs)} :
       \E st \in {IF r.ret THEN stop(FALSE, r.pid_file)
                  ELSE [running |-> FALSE, pid_file |-> r.pid_file, error |-> None]} :
          /\ pid_file' = st.pid_file
          /\ procs' = [procs EXCEPT ![p] = [pc |-> "idle", alive |-> FALSE, running |-> FALSE]]
          /\ schedRes' = [NoSchedRes EXCEPT !.op = "signal_handler", !.pid = p,
                                            !.ret = r.ret, !.error = st.error]
    /\ UNCHANGED executions
    /\ OtherThanDaemon

\* the `scheduler stop` command run in process q: a new SchedulerManager, whose
\* scheduler was never started; `if not scheduler.is_running(): return`, else
\* stop() on it, whose exception the command reports
scheduler_stop(q) ==
    /\ procs[q].alive /\ procs[q].pc = "idle" /\ ~procs[q].running
    /\ \E r \in {is_running(pid_file, procs)} :
       \E st \in {IF r.ret THEN stop(FALSE, r.pid_file)
                  ELSE [running |-> FALSE, pid_file |-> r.pid_file, error |-> None]} :
          /\ pid_file' = st.pid_file
          /\ schedRes' = [NoSchedRes EXCEPT !.op = "scheduler_stop", !.pid = q,
                                            !.ret = r.ret, !.error = st.error]
    /\ UNCHANGED <<procs, executions>>
    /\ OtherThanDaemon

(***************************************************************************)
(* Task executions: the dispatcher threads of the BackgroundScheduler and  *)
(* the threads calling run_task_now, in the process "p1"                   *)
(***************************************************************************)
OtherThanExec ==
    UNCHANGED <<envVars, pipeRes, restart_history, arRes, healthRes, tasks, jobs, pid_file, procs, deploys>>

\* the cron trigger of job i fires: the dispatcher submits a run unless
\* max_instances runs of the job that it submitted are still in progress
Trigger(i) ==
    /\ procs["p1"].running
    /\ i \in DOMAIN jobs
    /\ IF executions[i].cron < max_instances
       THEN /\ executions' = [executions EXCEPT ![i].cron = @ + 1]
            /\ schedRes' = [NoSchedRes EXCEPT !.op = "trigger", !.id = i,
                                              !.call = job_call(jobs, i)]
       ELSE /\ executions' = executions
            /\ schedRes' = [NoSchedRes EXCEPT !.op = "trigger", !.id = i,
                                              !.error = "MaxInstancesReached"]
    /\ OtherThanExec

\* a run of job i that the dispatcher submitted ends, returning or raising: the
\* listener _job_executed gets EVENT_JOB_EXECUTED or EVENT_JOB_ERROR and logs
\* the failure or the completion: [executions, tasks, jobs, logged]
job_executed_drops_failed(ex, tk, jb, i, exception) ==
    [executions |-> [ex EXCEPT ![i].cron = @ - 1],
     tasks |-> IF exception /\ i \in DOMAIN tk THEN Del(tk, i) ELSE tk,
     jobs |-> IF exception /\ i \in DOMAIN jb THEN Del(jb, i) ELSE jb,
     logged |-> IF exception THEN "error" ELSE "info"]

job_executed(ex, tk, jb, i, exception) ==
    [executions |-> [ex EXCEPT ![i].cron = @ - 1], tasks |-> tk, jobs |-> jb,
     logged |-> IF exception THEN "error" ELSE "info"]

\* a run submitted by the dispatcher ends
JobDone(i) ==
    /\ executions[i].cron > 0
    /\ \E exception \in BOOLEAN :
       \E r \in {job_executed(executions, tasks, jobs, i, exception)} :
          /\ executions' = r.executions
          /\ tasks' = r.tasks
          /\ jobs' = r.jobs
          /\ schedRes' = [NoSchedRes EXCEPT !.op = "job_done", !.id = i,
                                            !.error = IF exception THEN "JobError" ELSE None,
                                            !.logged = r.logged]
    /\ UNCHANGED <<envVars, pipeRes, restart_history, arRes, healthRes, pid_file, procs, deploys>>

\* run_task_now, up to the call of task.func in the calling thread
RunTaskNowBegin(i) ==
    /\ executions[i].manual < MaxCallers
    /\ IF run_task_now(tasks, i, TRUE) # None
       THEN /\ executions' = executions
            /\ schedRes' = [NoSchedRes EXCEPT !.op = "run_task_now", !.id = i,
                                              !.error = run_task_now(tasks, i, TRUE)]
       ELSE /\ executions' = [executions EXCEPT ![i].manual = @ + 1]
            /\ schedRes' = [NoSchedRes EXCEPT !.op = "run_task_now_begin", !.id = i,
                                              !.call = task_call(tasks, i)]
    /\ OtherThanExec

\* run_task_now: task.func returns or raises
RunTaskNowEnd(i, funcOk) ==
    /\ executions[i].manual > 0
    /\ executions' = [executions EXCEPT ![i].manual = @ - 1]
    /\ schedRes' = [NoSchedRes EXCEPT !.op = "run_task_now", !.id = i,
                                      !.error = IF funcOk THEN None ELSE "TaskError"]
    /\ OtherThanExec

(***************************************************************************)
(* CICDPipeline (core/cicd.py)                                             *)
(***************************************************************************)
ValidationResult(name, status) == [name |-> name, status |-> status]

\* free space in GB seen by shutil.disk_usage
FreeGb(disk) == IF disk = "4" THEN 4 ELSE 5

\* CICDPipeline._validate_python_syntax
validate_python_syntax(probes) ==
    ValidationResult("Python Syntax", IF probes.py_errors > 0 THEN FAILED ELSE PASSED)

\* CICDPipeline._validate_xml
validate_xml(probes) ==
    ValidationResult("XML Validation",
        IF probes.xml = "no_parser" THEN SKIPPED
        ELSE IF probes.xml = "errors" THEN FAILED ELSE PASSED)

\* CICDPipeline._validate_disk_space
validate_disk_space(probes) ==
    ValidationResult("Disk Space",
        IF probes.disk = "raises" THEN SKIPPED
        ELSE IF FreeGb(probes.disk) < min_disk_space_gb THEN FAILED ELSE PASSED)

\* CICDPipeline._validate_database
validate_database(probes) ==
    ValidationResult("Database Connection",
        IF probes.db = "raises" THEN SKIPPED
        ELSE IF probes.db = "connected" THEN PASSED ELSE FAILED)

\* CICDPipeline._run_tests
run_tests(probes) ==
    ValidationResult("Tests",
        CASE probes.tests = "no_tests_dir" -> SKIPPED
          [] probes.tests = "rc0"          -> PASSED
          [] probes.tests = "rc1"          -> FAILED
          [] probes.tests = "timeout"      -> FAILED
          [] OTHER                         -> SKIPPED)

\* CICDPipeline._validate_migrations
validate_migrations(probes) == ValidationResult("Migration Check", PASSED)

\* the overall status with a skipped stage counted as a failure
ValidationStatusSkippedFails(validations) ==
    IF \E i \in 1..Len(validations) : validations[i].status \in {FAILED, SKIPPED}
    THEN FAILED ELSE PASSED

\* the overall status of a validation run that no stage can fail
ValidationStatusNeverFails(validations) == PASSED

\* the overall status of a validation run: any(v.status == FAILED)
ValidationStatusOf(validations) ==
    IF \E i \in 1..Len(validations) : validations[i].status = FAILED THEN FAILED ELSE PASSED

\* CICDPipeline.validate_deployment: [raised, status, validations].
\* _validate_python_syntax, _validate_xml and _validate_migrations call
\* get_repo_path, which raises GitError for a missing repository, and catch only
\* SyntaxError / ParseError: any other exception of a file read leaves the method
validate_deployment(branch, repo, environment, probes, cfg) ==
    LET raise(e) == [raised |-> e, status |-> RUNNING, validations |-> <<>>]
    IN  IF repo \notin Repos THEN raise("GitError")
        ELSE IF probes.py_raises THEN raise("UnicodeDecodeError")
        ELSE IF probes.xml = "raises" THEN raise("OSError")
        ELSE LET validations ==
                     << validate_python_syntax(probes), validate_xml(probes),
                        validate_disk_space(probes), validate_database(probes) >>
                     \o (IF cfg.run_tests THEN <<run_tests(probes)>> ELSE <<>>)
                     \o (IF cfg.check_migrations THEN <<validate_migrations(probes)>> ELSE <<>>)
             IN  [raised |-> None, status |-> ValidationStatusOf(validations),
                  validations |-> validations]

\* CICDPipeline._rollback: [st, error, record]
pipeline_rollback(s, environment, previous_deployment, pullOk, createOk) ==
    IF previous_deployment = NoRecord THEN [st |-> s, error |-> None, record |-> NoRecord]
    ELSE EnvDeploy(s, environment, previous_deployment.branch, None, pullOk, createOk)

\* the PipelineResult fields the model keeps
PipelineResult(environment, branch, status, validations, deployment, rollback, message) ==
    [environment |-> environment, branch |-> branch, status |-> status,
     validations |-> validations, deployment |-> deployment,
     rollback_deployment |-> rollback, error_message |-> message]

\* CICDPipeline.deploy: [st, result, deploy_called, rollback_called];
\* error_message "" is written None; deploy_called: the deploy step
\* (env_manager.deploy) was entered; rollback_called: _rollback was entered
pipeline_deploy(s, branch, environment, repo, skip_validation, probes, cfg, pullOk, createOk) ==
    LET repo_name == IF repo # None THEN repo ELSE environments[environment].git_repo
        \* the except branch: rollback only when result.deployment is set
        caught(st, e, validations, deployment, previous, called) ==
            LET attempt == cfg.rollback_on_failure /\ deployment # NoRecord
                rb == IF attempt
                      THEN pipeline_rollback(st, environment, previous, pullOk, createOk)
                      ELSE [st |-> st, error |-> None, record |-> NoRecord]
            IN  [st |-> rb.st,
                 result |-> PipelineResult(environment, branch, FAILED, validations, deployment,
                                           rb.record, e),
                 deploy_called |-> called, rollback_called |-> attempt]
    IN  IF environment \notin DOMAIN environments
        THEN caught(s, "EnvironmentNotFoundError", <<>>, NoRecord, NoRecord, FALSE)
        ELSE IF repo_name = None THEN caught(s, "NoRepository", <<>>, NoRecord, NoRecord, FALSE)
        ELSE IF GitStatusBranch(s, repo_name) = "GitError"
             THEN caught(s, "GitError", <<>>, NoRecord, NoRecord, FALSE)
        ELSE
        LET validation == IF skip_validation
                          THEN [raised |-> None, status |-> PASSED, validations |-> <<>>]
                          ELSE validate_deployment(branch, repo_name, environment, probes, cfg)
        IN
        IF validation.raised # None
        THEN caught(s, validation.raised, <<>>, NoRecord, NoRecord, FALSE)
        ELSE IF validation.status = FAILED
        THEN [st |-> s,
              result |-> PipelineResult(environment, branch, FAILED, validation.validations,
                                        NoRecord, NoRecord, "Pre-deployment validation failed"),
              deploy_called |-> FALSE, rollback_called |-> FALSE]
        ELSE
        LET previous == get_last_deployment(s, environment)
            d == EnvDeploy(s, environment, branch, repo_name, pullOk, createOk)
        IN  IF d.error # None
            THEN caught(d.st, d.error, validation.validations, NoRecord, previous, TRUE)
            ELSE [st |-> d.st,
                  result |-> PipelineResult(environment, branch, PASSED, validation.validations,
                                            d.record, NoRecord, None),
                  deploy_called |-> TRUE, rollback_called |-> FALSE]

\* DeploymentHistory.id: f"{environment}-{timestamp:%Y%m%d%H%M%S}", as its parts
IdOf(rec) == <<rec.environment, rec.timestamp>>

\* str.startswith on ids
StartsWith(id, prefix) == Len(prefix) <= Len(id) /\ SubSeq(id, 1, Len(prefix)) = prefix

\* CICDPipeline.rollback(environment, target_id): [st, error, record, target];
\* target: the record selected, the deploy of its branch is called with
\* repo = target.rollback_from or environment, and rollback_from is never set
cicd_rollback(s, environment, target_id, pullOk, createOk) ==
    LET hist == get_deployment_history(s, environment, ROLLBACK_LIMIT)
        matching == { i \in 1..Len(hist) : StartsWith(IdOf(hist[i]), target_id) }
        target == IF target_id # <<>>
                  THEN (IF matching = {} THEN NoRecord
                        ELSE hist[CHOOSE i \in matching : \A j \in matching : i <= j])
                  ELSE IF Len(hist) > 1 THEN hist[2] ELSE hist[1]
    IN  IF hist = <<>>
        THEN [st |-> s, error |-> "NoHistory", record |-> NoRecord, target |-> NoRecord]
        ELSE IF target = NoRecord
        THEN [st |-> s, error |-> "NotFound", record |-> NoRecord, target |-> NoRecord]
        ELSE LET d == EnvDeploy(s, environment, target.branch, environment, pullOk, createOk)
             IN  [st |-> d.st, error |-> d.error, record |-> d.record, target |-> target]

NoPipeRes == [op |-> "init", raised |-> None, skip_validation |-> FALSE, repo |-> None,
              probes |-> SkippedProbes, deploy_called |-> FALSE, rollback_called |-> FALSE,
              target_id |-> <<>>, target |-> NoRecord, pull_ok |-> TRUE,
              config |-> CHOOSE cfg \in PipelineConfigs : cfg.run_tests,
              result |-> PipelineResult(None, None, RUNNING, <<>>, NoRecord, NoRecord, None)]

PipeInit == pipeRes = NoPipeRes

OtherThanPipe ==
    UNCHANGED <<envRes, restart_history, arRes, healthRes, tasks, jobs, schedRes, daemonVars, deploys>>

\* CICDPipeline.validate_deployment(branch, repo, environment)
PipeValidate(branch, repo, environment, probes, cfg) ==
    \E v \in {validate_deployment(branch, repo, environment, probes, cfg)} :
        /\ pipeRes' = [NoPipeRes EXCEPT !.op = "validate", !.raised = v.raised, !.repo = repo,
                          !.config = cfg,
                          !.result = PipelineResult(environment, branch, v.status, v.validations,
                                                    NoRecord, NoRecord, None)]
        /\ UNCHANGED <<environments, repoBranch, instances, fileExists, proc, toolOk, history, now>>
        /\ OtherThanPipe

\* CICDPipeline.deploy(branch, environment, repo, skip_validation)
PipeDeploy(branch, environment, repo, skip_validation, probes, cfg, pullOk, createOk) ==
    \E r \in {pipeline_deploy(Cur, branch, environment, repo, skip_validation, probes, cfg,
                              pullOk, createOk)} :
        /\ SetState(r.st)
        /\ pipeRes' = [NoPipeRes EXCEPT !.op = "deploy", !.skip_validation = skip_validation,
                                        !.repo = repo, !.config = cfg, !.probes = probes,
                                        !.deploy_called = r.deploy_called,
                                        !.rollback_called = r.rollback_called,
                                        !.result = r.result]
        /\ UNCHANGED <<environments, toolOk>>
        /\ OtherThanPipe

\* CICDPipeline.rollback(environment, target_id): raised is the exception, the
\* returned record is result.deployment
PipeRollback(environment, target_id, pullOk, createOk) ==
    \E r \in {cicd_rollback(Cur, environment, target_id, pullOk, createOk)} :
        /\ SetState(r.st)
        /\ pipeRes' = [NoPipeRes EXCEPT !.op = "rollback", !.raised = r.error,
                          !.target_id = target_id, !.target = r.target, !.pull_ok = pullOk,
                          !.result = PipelineResult(environment, r.target.branch,
                                        IF r.error = None THEN PASSED ELSE FAILED, <<>>,
                                        r.record, NoRecord, None)]
        /\ UNCHANGED <<environments, toolOk>>
        /\ OtherThanPipe

(***************************************************************************)
(* Specifications                                                          *)
(***************************************************************************)

(***************************************************************************)
(* Overlapping deploys (EnvironmentManager.deploy in two processes)        *)
(***************************************************************************)
Deployers == {"d1", "d2"}       \* processes that run deploy at the same time
ConcEnvs  == {"dev", "staging"} \* the environments they deploy to

\* a process outside deploy
IdleDeploy ==
    [pc |-> "idle", environment |-> None, branch |-> None, name |-> None,
     reg |-> [n \in {} |-> NoRecord], rec |-> NoRecord,
     data |-> [e \in EnvNames |-> <<>>], done |-> 0, completed |-> <<>>, error |-> None]

ConcInit == deploys = [d \in Deployers |-> IdleDeploy]

OtherThanConc ==
    UNCHANGED <<environments, toolOk, envRes, pipeRes, restart_history, arRes, healthRes,
                tasks, jobs, schedRes, daemonVars>>

\* the deploys begun so far, finished or not
Begun == LET RECURSIVE Sum(_)
             Sum(S) == IF S = {} THEN 0
                       ELSE LET d == CHOOSE x \in S : TRUE
                            IN  deploys[d].done + (IF deploys[d].pc = "idle" THEN 0 ELSE 1)
                                + Sum(S \ {d})
         IN  Sum(Deployers)

\* deploy leaves with an exception
ConcRaise(d, e) ==
    deploys' = [deploys EXCEPT ![d] = [IdleDeploy EXCEPT !.done = deploys[d].done + 1,
                                                         !.completed = deploys[d].completed,
                                                         !.error = e]]

\* _record_deployment writing back the document it has loaded, with the record
\* appended to the document as it is on disk now
write_history_locked(s, data, rec) ==
    [s EXCEPT !.history[rec.environment] = LastN(Append(@, rec), HISTORY_CAP)]

\* _record_deployment, second half: the record is appended to the loaded
\* document, the list is cut to its last 50, and the document is dumped
write_history(s, data, rec) ==
    [s EXCEPT !.history = [data EXCEPT ![rec.environment] =
                                          LastN(Append(@, rec), HISTORY_CAP)]]

\* deploy up to the pull: the environment is looked up, the branch is checked
\* out and pulled
ConcCheckout(d, environment, branch) ==
    /\ deploys[d].pc = "idle" /\ Begun < MaxConcDeploys
    /\ environment \in DOMAIN environments /\ environments[environment].git_repo # None
    /\ LET repo_name == environments[environment].git_repo
           co == checkout(Cur, repo_name, branch)
       IN  /\ SetState(co.st)
           /\ IF co.error # None THEN ConcRaise(d, co.error)
              ELSE deploys' = [deploys EXCEPT ![d] =
                                  [@ EXCEPT !.pc = "instance", !.environment = environment,
                                            !.branch = branch, !.error = None]]
    /\ OtherThanConc

\* instance = self._get_instance_for_environment(environment)
ConcGetInstance(d) ==
    /\ deploys[d].pc = "instance"
    /\ \E gi \in {get_instance_for_environment(Cur, deploys[d].environment, TRUE)} :
          /\ SetState(gi.st)
          /\ IF gi.error # None THEN ConcRaise(d, gi.error)
             ELSE deploys' = [deploys EXCEPT ![d] = [@ EXCEPT !.pc = "load", !.name = gi.name]]
    /\ OtherThanConc

\* instances_config = self.instance_manager.instances_file.load()
ConcLoad(d) ==
    /\ deploys[d].pc = "load"
    /\ deploys' = [deploys EXCEPT ![d] = [@ EXCEPT !.pc = "save", !.reg = instances]]
    /\ UNCHANGED <<repoBranch, instances, fileExists, proc, history, now>>
    /\ OtherThanConc

\* the loaded registry is saved with the instance's branch and repository set
ConcSave(d) ==
    /\ deploys[d].pc = "save"
    /\ LET l == deploys[d]
           repo_name == environments[l.environment].git_repo
       IN  instances' = IF l.name \in DOMAIN l.reg
                        THEN [l.reg EXCEPT ![l.name].git_branch = l.branch,
                                           ![l.name].git_repo = repo_name]
                        ELSE instances
    /\ deploys' = [deploys EXCEPT ![d] = [@ EXCEPT !.pc = "restart",
                                                   !.reg = IdleDeploy.reg]]
    /\ UNCHANGED <<repoBranch, fileExists, proc, history, now>>
    /\ OtherThanConc

\* `if instance.is_running(): instance.restart()`
ConcRestart(d) ==
    /\ deploys[d].pc = "restart"
    /\ deploys[d].name \in DOMAIN instances
    /\ \E rs \in {restart_if_running(Cur, deploys[d].name)} :
          /\ SetState(rs.st)
          /\ IF rs.error # None THEN ConcRaise(d, rs.error)
             ELSE deploys' = [deploys EXCEPT ![d] = [@ EXCEPT !.pc = "read"]]
    /\ OtherThanConc

\* the DeploymentHistory is built and _record_deployment loads the document
ConcRead(d) ==
    /\ deploys[d].pc = "read"
    /\ deploys' = [deploys EXCEPT ![d] =
                      [@ EXCEPT !.pc = "write", !.data = history,
                                !.rec = DeploymentRecord(deploys[d].environment,
                                                        deploys[d].branch, now)]]
    /\ now' = now + 1
    /\ UNCHANGED <<repoBranch, instances, fileExists, proc, history>>
    /\ OtherThanConc

\* _record_deployment dumps the document; deploy returns the record
ConcWrite(d) ==
    /\ deploys[d].pc = "write"
    /\ SetState(write_history(Cur, deploys[d].data, deploys[d].rec))
    /\ deploys' = [deploys EXCEPT ![d] =
                      [IdleDeploy EXCEPT !.done = deploys[d].done + 1,
                                         !.completed = Append(deploys[d].completed,
                                                              deploys[d].rec)]]
    /\ OtherThanConc

Init == EnvInit /\ PipeInit /\ ARInit /\ MonInit /\ SchedInit /\ DaemonInit /\ ConcInit

\* Environments: deploy and promote, with the production instance started and
\* stopped in between
Next ==
    \/ \E e \in EnvNames, b \in Branches, r \in SpecRepoArgs, pullOk \in BOOLEAN :
          now < MaxDeploys /\ Deploy(e, b, r, pullOk, TRUE)
    \/ \E e \in EnvNames, t \in EnvNames \cup {None}, pullOk \in BOOLEAN :
          now < MaxDeploys /\ Promote(e, t, pullOk, TRUE)
    \/ \E n \in SpecStartable : StartInstance(n, TRUE)
    \/ \E n \in SpecStartable : StopInstance(n)

Spec == Init /\ [][Next]_vars

\* Deployment history: staging is deployed to, directly and by promoting dev,
\* until its history has passed the cap; the history of staging and of dev is read
NextHist ==
    \/ now < MaxHistDeploys /\ Deploy("staging", "main", None, TRUE, TRUE)
    \/ now < MaxHistDeploys /\ Promote("dev", None, TRUE, TRUE)
    \/ \E e \in {"dev", "staging"}, limit \in 0..MaxLimit : GetHistory(e, limit)

SpecHist == Init /\ [][NextHist]_vars

\* Auto-restart: restarts of two instances are recorded and queried as time passes
NextAR ==
    \/ \E n \in ARNames : ShouldRestart(n)
    \/ \E n \in ARNames : Recorded < MaxRecorded /\ RecordRestart(n)
    \/ \E n \in ARNames : GetRestartCount(n)
    \/ \E t \in Instants : Tick(t)

SpecAR == Init /\ [][NextAR]_vars

\* Auto-restart as its caller uses it: a restart is recorded only right after
\* should_restart allowed it
NextProto ==
    \/ \E n \in ARNames : ShouldRestart(n)
    \/ \E n \in ARNames, t \in Instants : RecordAfterStart(n, t)
    \/ \E n \in ARNames : GetRestartCount(n)
    \/ \E t \in Instants : Tick(t)

SpecProto == Init /\ [][NextProto]_vars

\* Two processes deploy at the same time; the instance of dev is started in between
NextConc ==
    \/ \E d \in Deployers, e \in ConcEnvs, b \in Branches : ConcCheckout(d, e, b)
    \/ \E d \in Deployers : ConcGetInstance(d)
    \/ \E d \in Deployers : ConcLoad(d)
    \/ \E d \in Deployers : ConcSave(d)
    \/ \E d \in Deployers : ConcRestart(d)
    \/ \E d \in Deployers : ConcRead(d)
    \/ \E d \in Deployers : ConcWrite(d)
    \/ StartInstance(OdooName("dev"), TRUE)

SpecConc == Init /\ [][NextConc]_vars

\* Health monitoring: an instance is created, started and stopped, and checked
NextMon ==
    \/ \E n \in MonNames : CreateInstance(n, DEPLOYMENT_DOCKER, TRUE)
    \/ \E n \in MonNames : StartInstance(n, TRUE)
    \/ \E n \in MonNames : StopInstance(n)
    \/ \E n \in MonNames, sp \in StatusProbes, dp \in DbProbes, hp \in HttpProbes,
          stats \in ResourceProbes, logs \in LogProbes :
          CheckInstance(n, sp, dp, hp, stats, logs)

SpecMon == Init /\ [][NextMon]_vars

\* the thresholds a monitor is built with: the defaults, and explicit ones
PassedThresholds == {DefaultThresholds, Thresholds(69, 89, 69, 84, 79, 89)}

\* Resource check: monitors are built and classify usage figures
NextThresh ==
    \E passed \in PassedThresholds, stats \in ThresholdProbes : CheckResources(passed, stats)

SpecThresh == Init /\ [][NextThresh]_vars

\* Scheduler: tasks are added, removed, listed, looked up and run
NextSched ==
    \/ \E i \in TaskIds, e \in CronExprs : AddTask(i, "f1", e, None)
    \/ \E i \in TaskIds : RemoveTask(i)
    \/ ListTasks
    \/ \E i \in TaskIds : GetTask(i)
    \/ \E i \in TaskIds, funcOk \in BOOLEAN : RunTaskNow(i, funcOk)

SpecSched == Init /\ [][NextSched]_vars

\* Arguments of validate_deployment: every outcome of the stages in an existing
\* repository under both configurations, and a repository that is not cloned
PipeValidateArgs ==
    { [repo |-> "r1", probes |-> probes, config |-> cfg] :
        probes \in StageProbes, cfg \in PipelineConfigs }
    \cup { [repo |-> "r9", probes |-> PassingProbes, config |-> cfg] : cfg \in PipelineConfigs }

\* Arguments of deploy: deployments to staging over every outcome of the
\* validation stages; deployments with the default configuration over every
\* failure of the collaborators (unknown environment, no or missing repository,
\* failing pull, failing instance creation); a failing pull after every
\* outcome of the validation stages; unvalidated deployments
PipeDeployArgs ==
    { [branch |-> b, environment |-> "staging", repo |-> None, skip_validation |-> FALSE,
       probes |-> probes, config |-> cfg, pullOk |-> TRUE, createOk |-> TRUE] :
        b \in Branches, probes \in StageProbes, cfg \in PipelineConfigs }
    \cup { [branch |-> b, environment |-> e, repo |-> r, skip_validation |-> FALSE,
            probes |-> PassingProbes, config |-> DefaultConfig, pullOk |-> pullOk,
            createOk |-> createOk] :
             b \in Branches, e \in PipeDeployEnvs, r \in PipeRepos, pullOk \in BOOLEAN,
             createOk \in BOOLEAN }
    \cup { [branch |-> "main", environment |-> "staging", repo |-> None,
            skip_validation |-> FALSE, probes |-> probes, config |-> DefaultConfig,
            pullOk |-> FALSE, createOk |-> TRUE] : probes \in StageProbes }
    \cup { [branch |-> b, environment |-> "staging", repo |-> None, skip_validation |-> TRUE,
            probes |-> SkippedProbes, config |-> cfg, pullOk |-> pullOk, createOk |-> TRUE] :
             b \in Branches, cfg \in PipelineConfigs, pullOk \in BOOLEAN }

\* CI/CD pipeline: validation runs and pipeline deployments
NextPipe ==
    \/ \E a \in PipeValidateArgs : PipeValidate("main", a.repo, "staging", a.probes, a.config)
    \/ \E a \in PipeDeployArgs :
          now < MaxPipeDeploys
          /\ PipeDeploy(a.branch, a.environment, a.repo, a.skip_validation, a.probes, a.config,
                        a.pullOk, a.createOk)

SpecPipe == Init /\ [][NextPipe]_vars

\* Instances: created with either deployer, started, stopped, restarted, removed, crashing,
\* with the docker daemon and systemctl failing and recovering
NextInst ==
    \/ \E n \in InstSpecNames, dtype \in {DEPLOYMENT_DOCKER, DEPLOYMENT_SOURCE},
          createOk \in BOOLEAN : CreateInstance(n, dtype, createOk)
    \/ \E n \in InstSpecNames, createOk \in BOOLEAN : StartInstance(n, createOk)
    \/ \E n \in InstSpecNames : StopInstance(n)
    \/ \E n \in InstSpecNames : RestartInstance(n)
    \/ \E n \in InstSpecNames : RemoveInstance(n)
    \/ \E n \in InstSpecNames : Crash(n)
    \/ \E tool \in {DEPLOYMENT_DOCKER, DEPLOYMENT_SOURCE} : ToolDown(tool)
    \/ \E tool \in {DEPLOYMENT_DOCKER, DEPLOYMENT_SOURCE} : ToolUp(tool)

SpecInst == Init /\ [][NextInst]_vars

\* Rollback: staging is deployed to, main and feature in turn, until its history
\* is longer than what rollback reads; rollbacks of staging are requested
NextRoll ==
    \/ now < MaxRollDeploys
       /\ Deploy("staging", IF now % 2 = 0 THEN "main" ELSE "feature", None, TRUE, TRUE)
    \/ \E target_id \in TargetIds, pullOk \in BOOLEAN :
          PipeRollback("staging", target_id, pullOk, TRUE)

SpecRoll == Init /\ [][NextRoll]_vars

\* Scheduler daemon: three processes start and stop the scheduler, ask whether
\* it runs, and exit
NextDaemon ==
    \/ \E p \in Pids : StartCheck(p)
    \/ \E p \in Pids : StartWrite(p)
    \/ \E p \in Pids : StartScheduler(p)
    \/ \E p \in Pids : StopScheduler(p)
    \/ \E p \in Pids : IsRunning(p)
    \/ \E p \in Pids : ProcessExit(p)

SpecDaemon == Init /\ [][NextDaemon]_vars

\* Task executions: tasks are added and removed, the scheduler of process p1 is
\* started, cron triggers fire and run_task_now is called while runs are in
\* progress
NextExec ==
    \/ \E i \in TaskIds : AddTask(i, "f1", ValidCron, None)
    \/ \E i \in TaskIds : RemoveTask(i)
    \/ StartCheck("p1")
    \/ StartWrite("p1")
    \/ StartScheduler("p1")
    \/ \E i \in TaskIds : Trigger(i)
    \/ \E i \in TaskIds : JobDone(i)
    \/ \E i \in TaskIds : RunTaskNowBegin(i)
    \/ \E i \in TaskIds, funcOk \in BOOLEAN : RunTaskNowEnd(i, funcOk)

SpecExec == Init /\ [][NextExec]_vars

\* Cancelling the scheduler: process p1 starts the scheduler, in the foreground
\* (KeyboardInterrupt runs stop() on its own manager) or as the standalone daemon
\* (signals run signal_handler); process p2 runs the `scheduler stop` command;
\* tasks are added and their runs are in flight meanwhile.  A handler that was
\* entered runs to its end.
NextStop ==
    \/ \E i \in TaskIds : AddTask(i, "f1", ValidCron, None)
    \/ StartCheck("p1")
    \/ StartWrite("p1")
    \/ StartScheduler("p1")
    \/ \E i \in TaskIds : Trigger(i)
    \/ \E i \in TaskIds : JobDone(i)
    \/ procs["p1"].running /\ StopScheduler("p1")
    \/ Signal("p1")
    \/ SignalHandler("p1")
    \/ scheduler_stop("p2")

SpecStop == Init /\ [][NextStop]_vars /\ WF_vars(SignalHandler("p1"))

\* Arguments of deploy in the sequential specification
SeqDeployArgs ==
    { [environment |-> e, branch |-> b, repo |-> r, auto_start |-> a, pullOk |-> p,
       createOk |-> c] :
        e \in SeqEnvs, b \in Branches, r \in SpecRepoArgs, a \in BOOLEAN, p \in BOOLEAN,
        c \in BOOLEAN }

\* Sequential deploys: deploy calls follow one another, each succeeding or
\* failing at the pull, at the creation of the instance or at the restart; between
\* them the lazily created instances are started and stopped and the compose
\* command breaks and is repaired
NextSeq ==
    \/ \E a \in SeqDeployArgs :
          now < MaxSeqDeploys
          /\ DeployAuto(a.environment, a.branch, a.repo, a.auto_start, a.pullOk, a.createOk)
    \/ \E e \in SeqEnvs : StartInstance(OdooName(e), TRUE)
    \/ \E e \in SeqEnvs : StopInstance(OdooName(e))
    \/ ToolDown(COMPOSE)
    \/ ToolUp(COMPOSE)

SpecSeq == Init /\ [][NextSeq]_vars

\* Re-adding tasks: tasks are added with either callable, with and without
\* kwargs, under a valid and under a four-field cron expression; they are listed
\* and run by run_task_now and, once the scheduler is started, by the dispatcher
NextReplace ==
    \/ \E i \in TaskIds, f \in Funcs, e \in ReplaceCrons, k \in Kwargs : AddTask(i, f, e, k)
    \/ ListTasks
    \/ \E i \in TaskIds : RunTaskNow(i, TRUE)
    \/ StartCheck("p1")
    \/ StartWrite("p1")
    \/ StartScheduler("p1")
    \/ \E i \in TaskIds : Trigger(i)
    \/ \E i \in TaskIds : JobDone(i)

SpecReplace == Init /\ [][NextReplace]_vars

(***************************************************************************)
(* Promotion (EnvironmentManager.promote)                                  *)
(***************************************************************************)
Tier(e) == TierIndex(environments[e].tier)

Last(seq) == seq[Len(seq)]

\* C1 (as stated): every promotion that reaches the deploy step moves to a
\* strictly higher tier, and every promotion whose target tier is lower than or
\* equal to the source tier fails with the ordering error and appends no record.
C1_OrderingErrorAlways ==
    [][ envRes'.op = "promote" =>
          /\ envRes'.reached => Tier(envRes'.arg) < Tier(envRes'.target)
          /\ (envRes'.targetArg # None /\ Tier(envRes'.targetArg) <= Tier(envRes'.arg))
                => (envRes'.error = "MustMoveForward" /\ history' = history) ]_vars

\* C1 (amended): every promotion that reaches the deploy step moves to a
\* strictly higher tier; a promotion whose target tier is lower than or equal to
\* the source tier fails and appends no record to any environment, with the
\* ordering error when the source environment has a branch to promote and with
\* "No branch deployed" when it has none; staging -> production with a branch to
\* promote passes the ordering check and reaches the deploy step.
C1_PromoteOrdering ==
    [][ envRes'.op = "promote" =>
          /\ envRes'.reached => Tier(envRes'.arg) < Tier(envRes'.target)
          /\ (envRes'.targetArg # None /\ Tier(envRes'.targetArg) <= Tier(envRes'.arg))
                => /\ envRes'.error = IF StatusGitBranch(Cur, envRes'.arg) # None
                                      THEN "MustMoveForward" ELSE "NoBranchDeployed"
                   /\ ~envRes'.reached
                   /\ history' = history
          /\ (envRes'.arg = "staging" /\ envRes'.targetArg = "production"
              /\ StatusGitBranch(Cur, "staging") # None)
                => envRes'.reached ]_vars

\* a promotion staging -> dev was refused with the ordering error after
\* staging had been deployed to
C1_Witness ==
    /\ envRes.op = "promote" /\ envRes.arg = "staging" /\ envRes.targetArg = "dev"
    /\ envRes.error = "MustMoveForward"
    /\ history["staging"] # <<>>

\* C9 (as stated): once a deploy to staging has succeeded, a successful
\* promote(staging) with no explicit target deploys to production and appends
\* there exactly one record, whose branch is the branch most recently deployed
\* to staging.
C9_PromotesDeployedBranch ==
    [][ (envRes'.op = "promote" /\ envRes'.arg = "staging" /\ envRes'.targetArg = None
         /\ history["staging"] # <<>> /\ envRes'.error = None)
          => /\ envRes'.target = "production"
             /\ Len(history'["production"]) = Len(history["production"]) + 1
             /\ Last(history'["production"]).branch = get_last_deployment(Cur, "staging").branch
             /\ \A e \in EnvNames \ {"production"} : history'[e] = history[e] ]_vars

\* promote(staging) succeeded and recorded in production a branch other than
\* the one last deployed to staging
C9_Witness ==
    /\ envRes.op = "promote" /\ envRes.arg = "staging" /\ envRes.targetArg = None
    /\ envRes.error = None
    /\ history["staging"] # <<>> /\ history["production"] # <<>>
    /\ Last(history["production"]).branch # Last(history["staging"]).branch

(***************************************************************************)
(* Deployment history (_record_deployment, get_deployment_history)         *)
(***************************************************************************)
\* C5: the stored history of every environment holds at most 50 records; a
\* successful deploy or promote appends its record to the target's list, which
\* then holds the last 50 appended records in append order (the oldest-appended
\* record is dropped when the list already held 50), and no other list changes.
C5_HistoryCap ==
    [][ \A e \in EnvNames :
          /\ Len(history'[e]) <= 50
          /\ IF envRes'.op \in {"deploy", "promote"} /\ envRes'.error = None
                /\ envRes'.target = e
             THEN history'[e] =
                     Append(IF Len(history[e]) < 50 THEN history[e] ELSE Tail(history[e]),
                            [environment |-> e, branch |-> envRes'.branch, timestamp |-> now])
             ELSE history'[e] = history[e] ]_vars

\* 52 records were appended to staging: 50 are stored and the two oldest are gone
C5_Witness ==
    /\ now = 52
    /\ Len(history["staging"]) = 50
    /\ history["staging"][1].timestamp = 2
    /\ history["staging"][50].timestamp = 51

\* C6: get_deployment_history(env, limit=N) returns exactly min(N, len) of the
\* stored records, in non-increasing timestamp order, none of them older than a
\* stored record it leaves out; with no stored records it returns the empty
\* list; and it changes no persisted state.
C6_HistoryRead ==
    [][ envRes'.op = "history" =>
          LET ret    == envRes'.ret
              stored == history[envRes'.arg]
              chosen == { i \in 1..Len(stored) : \E j \in 1..Len(ret) : ret[j] = stored[i] }
          IN  /\ Len(ret) = Min(envRes'.limit, Len(stored))
              /\ Cardinality(chosen) = Len(ret)
              /\ \A j \in 1..Len(ret) : \E i \in 1..Len(stored) : ret[j] = stored[i]
              /\ \A j \in 1..(Len(ret) - 1) : ret[j].timestamp >= ret[j + 1].timestamp
              /\ \A i \in (1..Len(stored)) \ chosen, j \in 1..Len(ret) :
                    stored[i].timestamp <= ret[j].timestamp
              /\ (stored = <<>> => ret = <<>>)
              /\ UNCHANGED <<environments, repoBranch, instances, fileExists, proc, toolOk,
                             history, now>> ]_vars

\* the two newest of three or more stored records were returned, newest first
C6_Witness ==
    /\ envRes.op = "history" /\ envRes.limit = 2
    /\ Len(history[envRes.arg]) >= 3
    /\ Len(envRes.ret) = 2
    /\ envRes.ret[1].timestamp > envRes.ret[2].timestamp

(***************************************************************************)
(* AutoRestart rate limiting                                               *)
(***************************************************************************)
\* the restarts stored for the name of the last call
StoredFor(name) == IF name \in DOMAIN restart_history THEN restart_history[name] ELSE <<>>

\* how many of them are younger than 300 seconds
Younger300(times) == Cardinality({ i \in 1..Len(times) : now - times[i] < 300 })

\* C3 (as stated): with max_restarts=3 and restart_window=300, should_restart
\* returns true after 3 restarts recorded within the window and false after 4.
C3_TrueAfterThree ==
    (arRes.op = "should_restart" /\ Younger300(StoredFor(arRes.name)) = 3) => arRes.ret = TRUE

\* C3 (amended): with max_restarts=3 and restart_window=300, should_restart
\* returns true while at most 2 restarts are recorded within the window and
\* false after a 3rd and after a 4th within the same window; a recorded restart
\* that is 300 or more seconds old is no longer counted by get_restart_count.
C3_RateLimit ==
    /\ arRes.op = "should_restart" =>
          /\ Younger300(StoredFor(arRes.name)) <= 2 => arRes.ret = TRUE
          /\ Younger300(StoredFor(arRes.name)) \in {3, 4} => arRes.ret = FALSE
    /\ arRes.op = "get_restart_count" =>
          arRes.count = Len(StoredFor(arRes.name))
                          - Cardinality({ i \in 1..Len(StoredFor(arRes.name)) :
                                            now - StoredFor(arRes.name)[i] >= 300 })

\* should_restart refused after three restarts recorded within the window
C3_Witness ==
    /\ arRes.op = "should_restart" /\ arRes.ret = FALSE
    /\ Len(StoredFor(arRes.name)) = 3
    /\ now - StoredFor(arRes.name)[1] < 300

\* C4: should_restart(name) returns true exactly when fewer than max_restarts
\* restarts recorded for name are younger than restart_window, and it replaces
\* the stored list by those younger restarts; get_restart_count(name) returns
\* that number and leaves the stored lists unchanged.
C4_CountSemantics ==
    [][ LET name  == arRes'.name
            times == StoredFor(name)
            young == { i \in 1..Len(times) : now - times[i] < restart_window }
        IN  /\ arRes'.op = "should_restart" =>
                  /\ arRes'.ret = (Cardinality(young) < max_restarts)
                  /\ DOMAIN restart_history' = DOMAIN restart_history \cup {name}
                  /\ Len(restart_history'[name]) = Cardinality(young)
                  /\ \A i \in young :
                        restart_history'[name][Cardinality({ j \in young : j <= i })] = times[i]
                  /\ \A m \in DOMAIN restart_history \ {name} :
                        restart_history'[m] = restart_history[m]
            /\ arRes'.op = "get_restart_count" =>
                  /\ arRes'.count = Cardinality(young)
                  /\ restart_history' = restart_history ]_vars

\* get_restart_count left an expired restart in the stored list without counting it
C4_Witness ==
    /\ arRes.op = "get_restart_count" /\ arRes.count = 1
    /\ Len(StoredFor(arRes.name)) = 3
    /\ now - StoredFor(arRes.name)[1] >= restart_window

(***************************************************************************)
(* Health aggregation (HealthMonitor.check_instance)                       *)
(***************************************************************************)
ChecksWith(status) == { i \in 1..Len(healthRes.checks) : healthRes.checks[i].status = status }

\* C7: for a running instance the result holds five checks and its overall
\* status is the most severe of them under critical > warning > healthy: critical
\* if any check is critical, else warning if any check is warning, healthy if all
\* are healthy; it is never unknown, and no result whose checks are all unknown
\* is reported healthy.
C7_Aggregation ==
    healthRes.running =>
        /\ Len(healthRes.checks) = 5
        /\ ChecksWith("critical") # {} => healthRes.status = "critical"
        /\ (ChecksWith("critical") = {} /\ ChecksWith("warning") # {})
              => healthRes.status = "warning"
        /\ Cardinality(ChecksWith("healthy")) = 5 => healthRes.status = "healthy"
        /\ healthRes.status # "unknown"
        /\ ~(Cardinality(ChecksWith("unknown")) = 5 /\ healthRes.status = "healthy")

\* one critical check among warning and healthy ones made the result critical
C7_Witness ==
    /\ healthRes.running
    /\ Cardinality(ChecksWith("critical")) = 1
    /\ ChecksWith("warning") # {} /\ ChecksWith("healthy") # {}
    /\ healthRes.status = "critical"

(***************************************************************************)
(* Scheduler cron validation (SchedulerManager.add_task)                   *)
(***************************************************************************)
\* C8 (as stated): add_task of a new id with an expression that does not have
\* exactly five whitespace-separated fields raises the validation error and
\* registers nothing: the id is in neither the job list read by list_tasks nor
\* the task table read by get_task and run_task_now; with five well-formed
\* fields add_task succeeds and the id is listed.
C8_ValidatesBeforeRegistering ==
    [][ (schedRes'.op = "add_task" /\ schedRes'.id \notin DOMAIN tasks
         /\ schedRes'.id \notin DOMAIN jobs) =>
          /\ Len(Split(schedRes'.expr)) # 5 =>
                /\ schedRes'.error = "ValueError"
                /\ schedRes'.id \notin list_tasks(jobs')
                /\ get_task(tasks', schedRes'.id).task_id = None
                /\ run_task_now(tasks', schedRes'.id, TRUE) = "SchedulerError"
          /\ (Len(Split(schedRes'.expr)) = 5 /\ CronTriggerOk(Split(schedRes'.expr))) =>
                /\ schedRes'.error = None
                /\ schedRes'.id \in list_tasks(jobs') ]_vars

\* run_task_now ran a task that list_tasks does not show: its add_task was
\* rejected
C8_Witness ==
    /\ schedRes.op = "run_task_now" /\ schedRes.error = None
    /\ schedRes.id \notin list_tasks(jobs)
    /\ Len(Split(tasks[schedRes.id].cron_expression)) # 5

(***************************************************************************)
(* Pipeline results (CICDPipeline.validate_deployment, CICDPipeline.deploy) *)
(***************************************************************************)
Returned == pipeRes.op \in {"validate", "deploy"} /\ pipeRes.raised = None

SomeFailed == \E i \in 1..Len(pipeRes.result.validations) :
                  pipeRes.result.validations[i].status = "failed"

\* C2 (as stated): every PipelineResult returned by validate_deployment or
\* deploy has status failed if and only if one of its validations has status
\* failed.
C2_FailedIffValidationFailed ==
    Returned => (pipeRes.result.status = "failed" <=> SomeFailed)

\* C2 (amended): a result returned by validate_deployment is failed if and only
\* if one of its validations is failed; a result returned by deploy is failed if
\* and only if one of its validations is failed or an exception was raised
\* before or in the deploy step (error_message then holds the exception and no
\* deployment is attached); otherwise the status is passed, whatever number of
\* validations were skipped.
C2_PipelineStatus ==
    Returned =>
        LET res    == pipeRes.result
            raised == res.error_message \notin {"None", "Pre-deployment validation failed"}
        IN  /\ res.status \in {"passed", "failed"}
            /\ pipeRes.op = "validate" => (res.status = "failed" <=> SomeFailed)
            /\ pipeRes.op = "deploy" =>
                  /\ res.status = "failed" <=> (SomeFailed \/ raised)
                  /\ res.status = "passed" <=> res.deployment # NoRecord
                  /\ SomeFailed => ~raised
            /\ (~SomeFailed /\ res.error_message = "None") => res.status = "passed"

\* a pipeline deploy whose validations held skipped stages and no failed one
\* failed because the deploy step raised
C2_Witness ==
    /\ pipeRes.op = "deploy" /\ ~pipeRes.skip_validation
    /\ pipeRes.result.status = "failed"
    /\ ~SomeFailed
    /\ \E i \in 1..Len(pipeRes.result.validations) :
          pipeRes.result.validations[i].status = "skipped"
    /\ pipeRes.result.error_message = "GitError"

(***************************************************************************)
(* Stopping an instance (Instance.stop and the two deployers)              *)
(***************************************************************************)
\* the stop command of the instance's deployer would be run and would fail
StopCommandFails(n) ==
    /\ fileExists[n]
    /\ IF instances[n].deployment_type = DEPLOYMENT_DOCKER THEN ComposeFails
       ELSE ~toolOk[DEPLOYMENT_SOURCE]

\* C10 (as stated): for both deployers, stop on an instance whose status is
\* stopped does not raise and leaves the status stopped.
C10_StopNeverRaises ==
    [][ \A n \in InstNames :
          (envRes'.op = "stop" /\ envRes'.arg = n /\ envRes'.ret = <<"stopped">>) =>
              /\ envRes'.error = None
              /\ InstanceStatus(Cur, n)' = "stopped" ]_vars

\* C10 (amended): for both deployers, stop on an instance whose status is
\* stopped leaves the status stopped; it does not raise when the compose file or
\* unit file is absent (no command is run) or the stop command succeeds, and it
\* raises, changing nothing, when the stop command fails (docker daemon
\* unreachable, systemctl refusing); after any stop, a second stop leaves the
\* state as the first one left it.
C10_StopIdempotent ==
    [][ \A n \in InstNames :
          (envRes'.op = "stop" /\ envRes'.arg = n) =>
              /\ envRes'.ret = <<"stopped">> =>
                    /\ InstanceStatus(Cur, n)' = "stopped"
                    /\ envRes'.error = None <=> ~StopCommandFails(n)
                    /\ envRes'.error # None => Cur' = Cur
              /\ InstanceStop(Cur, n)'.st = Cur'
              /\ InstanceStop(Cur, n)'.error = envRes'.error ]_vars

\* stop was called on a stopped docker instance with a compose file and
\* returned without raising
C10_Witness ==
    /\ envRes.op = "stop" /\ envRes.ret = <<"stopped">> /\ envRes.error = None
    /\ instances[envRes.arg].deployment_type = "docker"
    /\ fileExists[envRes.arg]
    /\ proc[envRes.arg] = "down"

(***************************************************************************)
(* Removing an instance (InstanceManager.remove_instance)                  *)
(***************************************************************************)
\* C11: remove_instance on a running instance fails with InstanceStateError and
\* leaves the registry and the deployment (compose/unit file, workload) as they
\* were; whenever remove_instance takes an instance out of the registry, that
\* instance was not running.
C11_RemoveRunning ==
    [][ \A n \in InstNames :
          (envRes'.op = "remove" /\ envRes'.arg = n /\ n \in DOMAIN instances) =>
              /\ InstanceIsRunning(Cur, n) =>
                    /\ envRes'.error = "InstanceStateError"
                    /\ instances' = instances
                    /\ fileExists' = fileExists
                    /\ proc' = proc
              /\ n \notin DOMAIN instances' => ~InstanceIsRunning(Cur, n) ]_vars

\* remove_instance was refused for a registered instance that is running
C11_Witness ==
    /\ envRes.op = "remove" /\ envRes.error = "InstanceStateError"
    /\ envRes.arg \in DOMAIN instances
    /\ proc[envRes.arg] = "up" /\ fileExists[envRes.arg]

(***************************************************************************)
(* Validation stages (CICDPipeline.validate_deployment)                    *)
(***************************************************************************)
\* the stage names of the returned result, in order
StageNames == [i \in 1..Len(pipeRes.result.validations) |-> pipeRes.result.validations[i].name]

\* C12 (as stated): validate_deployment, here with every optional stage enabled
\* and an existing repository, always returns, and returns exactly one
\* ValidationResult per stage in the order Python syntax, XML, disk space,
\* database connectivity, tests, migration check, whatever an earlier stage
\* found or raised.
C12_AllStagesReport ==
    (pipeRes.op = "validate" /\ pipeRes.repo \in Repos
     /\ pipeRes.config.run_tests /\ pipeRes.config.check_migrations) =>
        /\ pipeRes.raised = None
        /\ StageNames = << "Python Syntax", "XML Validation", "Disk Space",
                           "Database Connection", "Tests", "Migration Check" >>

\* a validation of an existing repository with every stage enabled ended in an
\* exception of the Python syntax stage and returned no ValidationResult
C12_Witness ==
    /\ pipeRes.op = "validate" /\ pipeRes.repo \in Repos
    /\ pipeRes.config.run_tests /\ pipeRes.config.check_migrations
    /\ pipeRes.raised = "UnicodeDecodeError"
    /\ pipeRes.result.validations = <<>>

(***************************************************************************)
(* The pipeline's deploy (CICDPipeline.deploy)                             *)
(***************************************************************************)
\* the repository a pipeline deploy works on: the argument, else the bound one
PipeRepoName == IF pipeRes.repo # None THEN pipeRes.repo
                ELSE environments[pipeRes.result.environment].git_repo

\* the stage results a validation run of the last deploy's inputs yields
ValidationRun ==
    validate_deployment(pipeRes.result.branch, PipeRepoName, pipeRes.result.environment,
                        pipeRes.probes, pipeRes.config)

\* C13: when deploy is called with skip_validation = false and a stage of its
\* validation run fails, the deploy step is not entered (no checkout, no pull,
\* no restart, no record), repositories, registry, deployments, history and clock
\* are as before, and the result is failed, carries exactly the ValidationResults
\* of that run and no deployment.
C13_AbortOnFailedValidation ==
    [][ (pipeRes'.op = "deploy" /\ ~pipeRes'.skip_validation
         /\ pipeRes'.result.environment \in DOMAIN environments
         /\ PipeRepoName' \in Repos)
          => \A run \in {ValidationRun'} :
                (\E i \in 1..Len(run.validations) : run.validations[i].status = "failed")
                  => /\ ~pipeRes'.deploy_called
                     /\ UNCHANGED <<repoBranch, instances, fileExists, proc, history, now>>
                     /\ pipeRes'.result.status = "failed"
                     /\ pipeRes'.result.validations = run.validations
                     /\ pipeRes'.result.deployment = NoRecord ]_vars

\* a deploy to an environment that already has a deployment was aborted by a
\* failed test stage after the earlier stages had passed
C13_Witness ==
    /\ pipeRes.op = "deploy" /\ ~pipeRes.skip_validation
    /\ pipeRes.result.status = "failed"
    /\ pipeRes.result.error_message = "Pre-deployment validation failed"
    /\ ~pipeRes.deploy_called
    /\ \E i \in 1..Len(pipeRes.result.validations) :
          /\ pipeRes.result.validations[i].name = "Tests"
          /\ pipeRes.result.validations[i].status = "failed"
    /\ history[pipeRes.result.environment] # <<>>

\* the result of the last pipeline deploy carries an exception raised by the
\* deploy step
DeployStepRaised ==
    /\ pipeRes.op = "deploy" /\ pipeRes.deploy_called
    /\ pipeRes.result.status = "failed"

\* C14 (as stated): when the deploy step of a pipeline deploy raises, the result
\* is failed with the exception's message, and if rollback_on_failure is enabled
\* and the environment had a deployment recorded beforehand, the pipeline
\* attempts to redeploy the branch of that deployment.
C14_RollbackAttempted ==
    [][ DeployStepRaised' =>
          /\ pipeRes'.result.error_message \in {"GitError", "DeploymentError", "DockerError"}
          /\ (pipeRes'.config.rollback_on_failure
              /\ history[pipeRes'.result.environment] # <<>>)
                => pipeRes'.rollback_called ]_vars

\* with rollback_on_failure enabled, a deploy of feature to an environment whose
\* recorded deployment is main failed at the pull: no rollback was attempted and
\* the repository is left on feature
C14_Witness ==
    /\ DeployStepRaised
    /\ pipeRes.config.rollback_on_failure
    /\ pipeRes.result.error_message = "GitError"
    /\ history[pipeRes.result.environment] # <<>>
    /\ Last(history[pipeRes.result.environment]).branch = "main"
    /\ pipeRes.result.branch = "feature"
    /\ ~pipeRes.rollback_called
    /\ pipeRes.result.rollback_deployment = NoRecord
    /\ repoBranch[PipeRepoName] = "feature"

\* the deploy has no repository to work on, or one that does not exist
envRepoMissing(environment, repo) ==
    /\ environment \in DOMAIN environments
    /\ (IF repo # None THEN repo ELSE environments[environment].git_repo) \notin Repos

RollbackNeverEntered == ~pipeRes.rollback_called /\ pipeRes.result.rollback_deployment = NoRecord

(***************************************************************************)
(* Rollback (CICDPipeline.rollback)                                        *)
(***************************************************************************)
\* the 20 most recent records of staging, newest first
Recent20 == get_deployment_history(Cur, "staging", 20)

\* the record the claim says a rollback selects from a history; NoRecord if none
ClaimedTarget(hist, target_id) ==
    IF target_id # <<>>
    THEN LET matching == { i \in 1..Len(hist) : StartsWith(IdOf(hist[i]), target_id) }
         IN  IF matching = {} THEN NoRecord
             ELSE hist[CHOOSE i \in matching : \A j \in matching : i <= j]
    ELSE IF Len(hist) >= 2 THEN hist[2] ELSE NoRecord

\* C17 (as stated): rollback(environment, target_id) selects, among the 20 most
\* recent records, the newest whose id starts with target_id, or the second most
\* recent record when no target_id is given; it fails without deploying when
\* there is no such record; otherwise, source control permitting, it redeploys
\* the selected record's branch from the environment's bound repository and
\* appends one new record with that branch to the environment's history.
C17_RollbackRedeploys ==
    [][ pipeRes'.op = "rollback" =>
          \A target \in {ClaimedTarget(Recent20, pipeRes'.target_id)} :
             IF target = NoRecord
             THEN pipeRes'.raised # None /\ history' = history /\ repoBranch' = repoBranch
             ELSE pipeRes'.pull_ok =>
                    /\ pipeRes'.raised = None
                    /\ repoBranch'[environments["staging"].git_repo] = target.branch
                    /\ history'["staging"] =
                          LastN(Append(history["staging"],
                                       [environment |-> "staging", branch |-> target.branch,
                                        timestamp |-> now]), 50) ]_vars

\* a rollback of staging, which has two recorded deployments and whose bound
\* repository exists, selected the older record and failed in source control
\* although the pull would succeed; nothing was redeployed or recorded
C17_Witness ==
    /\ pipeRes.op = "rollback" /\ pipeRes.target_id = <<>> /\ pipeRes.pull_ok
    /\ Len(history["staging"]) = 2
    /\ pipeRes.target = history["staging"][1]
    /\ pipeRes.raised = "GitError"
    /\ environments["staging"].git_repo \in Repos
    /\ repoBranch[environments["staging"].git_repo] # pipeRes.target.branch

(***************************************************************************)
(* The branch a promotion takes (EnvironmentManager.promote)               *)
(***************************************************************************)
\* C18 (as stated): promote(source_env) fails, deploying to no target, if no
\* deployment has ever been made to source_env; if deployments exist, the branch
\* it promotes is the branch of source_env's latest deployment.
C18_PromoteNeedsDeployment ==
    [][ envRes'.op = "promote" =>
          /\ history[envRes'.arg] = <<>> =>
                /\ envRes'.error # None
                /\ ~envRes'.reached
                /\ UNCHANGED <<repoBranch, instances, fileExists, proc, history>>
          /\ (history[envRes'.arg] # <<>> /\ envRes'.reached) =>
                envRes'.branch = get_last_deployment(Cur, envRes'.arg).branch ]_vars

\* promote(dev) succeeded although nothing had ever been deployed to dev: the
\* branch checked out in dev's repository was deployed to staging and recorded
C18_Witness ==
    /\ envRes.op = "promote" /\ envRes.arg = "dev" /\ envRes.error = None
    /\ history["dev"] = <<>>
    /\ envRes.target = "staging"
    /\ Len(history["staging"]) = 1
    /\ history["staging"][1].branch = repoBranch[environments["dev"].git_repo]

(***************************************************************************)
(* The scheduler's pid file (SchedulerManager.start, is_running)           *)
(***************************************************************************)
\* the processes whose dispatcher is started
Dispatchers == { p \in Pids : procs[p].running }

\* C19 (as stated): start() fails with SchedulerError whenever the pid file
\* names a live process; at most one dispatcher is started at any time, also
\* when start() calls of different processes interleave; is_running() returns
\* false and removes the pid file when the recorded process no longer exists, so
\* that a start() finding a stale pid file goes on.
C19_SingleInstance ==
    [][ /\ (schedRes'.op = "start" /\ pid_file # None /\ procs[pid_file].alive)
              => (schedRes'.error = "SchedulerError" /\ procs' = procs)
        /\ (schedRes'.op \in {"start", "is_running"} /\ pid_file # None
            /\ ~procs[pid_file].alive)
              => (~schedRes'.ret /\ pid_file' = None /\ schedRes'.error = None)
        /\ Cardinality(Dispatchers') <= 1 ]_vars

\* two live processes have both started their dispatcher, each having passed
\* the is_running check before the other wrote the pid file
C19_Witness ==
    /\ Cardinality(Dispatchers) = 2
    /\ pid_file \in Dispatchers
    /\ \A p \in Pids : procs[p].alive /\ procs[p].pc = "idle"

(***************************************************************************)
(* Concurrent executions of a task                                         *)
(***************************************************************************)
\* the runs of task i in progress
InProgress(i) == executions[i].cron + executions[i].manual

\* C20 (as stated): at no time are two executions of the same task id in
\* progress, whether started by the cron dispatcher or by run_task_now; a trigger
\* that fires while a run of the task is in progress starts no second run.
C20_OneExecutionPerTask ==
    [][ /\ \A i \in TaskIds : InProgress(i)' <= 1
        /\ \A i \in TaskIds :
              (schedRes'.op = "trigger" /\ schedRes'.id = i /\ InProgress(i) > 0)
                => executions' = executions ]_vars

\* run_task_now runs task t1 while the run of t1 that the dispatcher started is
\* still in progress
C20_Witness ==
    /\ schedRes.op = "run_task_now_begin" /\ schedRes.id = "t1"
    /\ executions["t1"].cron = 1 /\ executions["t1"].manual = 1
    /\ "t1" \in DOMAIN jobs /\ procs["p1"].running


(***************************************************************************)
(* Cancelling a running scheduler (stop, signal_handler, scheduler_stop)   *)
(***************************************************************************)
\* a running scheduler was cancelled or told to stop
StopRequested ==
    \/ procs["p1"].pc = "signalled"
    \/ schedRes.op = "scheduler_stop" /\ schedRes.ret
    \/ schedRes.op = "stop" /\ schedRes.error = None

\* C21 (as stated): whenever a running scheduler is cancelled or stopped, by
\* KeyboardInterrupt in the foreground, by a signal to the standalone daemon or
\* by the `scheduler stop` command of another process, eventually no dispatcher
\* runs and the pid file no longer exists.
C21_CancelShutsDown == StopRequested ~> (Dispatchers = {} /\ pid_file = None)

\* the standalone daemon's signal handler ended in the SchedulerError of stop():
\* the process is gone and the pid file still names it
C21_Witness ==
    /\ schedRes.op = "signal_handler" /\ schedRes.error = "SchedulerError"
    /\ ~procs["p1"].alive /\ Dispatchers = {}
    /\ pid_file = "p1"


C23_FailureKeepsTask ==
    [][ (schedRes'.op = "job_done" /\ schedRes'.error = "JobError") =>
          /\ schedRes'.logged = "error"
          /\ procs' = procs
          /\ tasks' = tasks /\ jobs' = jobs
          /\ list_tasks(jobs') = list_tasks(jobs)
          /\ executions'[schedRes'.id].cron < max_instances
          /\ \A j \in TaskIds \ {schedRes'.id} : executions'[j] = executions[j] ]_vars

\* a run of t1 ended in an exception while a run of t2 was in progress: the
\* dispatcher runs, both jobs are listed and t1 can be triggered again
C23_Witness ==
    /\ schedRes.op = "job_done" /\ schedRes.error = "JobError" /\ schedRes.id = "t1"
    /\ procs["p1"].running
    /\ list_tasks(jobs) = {"t1", "t2"}
    /\ executions["t1"].cron = 0 /\ executions["t2"].cron = 1


(***************************************************************************)
(* The instance of an environment (_get_instance_for_environment)          *)
(***************************************************************************)
\* the deploy of this step got past checkout and pull
PastGit(res) ==
    res.op = "deploy"
    /\ res.error \notin {"EnvironmentNotFoundError", "NoRepository", "GitError"}

\* C24 (as stated): after any sequence of deploy calls, successful or failing
\* part-way, every environment has at most one instance bound to it; a deploy
\* to an environment without a bound instance that ends well has created
\* exactly the instance odoo-<environment> and bound it; a deploy to an
\* environment with a bound instance keeps that instance and creates none; and
\* no deploy fails because the instance it would create exists already.
C24_OneInstancePerEnvironment ==
    [][ PastGit(envRes') =>
          LET e      == envRes'.arg
              before == BoundInstances(Cur, e)
              after  == BoundInstances(Cur', e)
          IN  /\ \A x \in EnvNames : Cardinality(BoundInstances(Cur', x)) <= 1
              /\ (before = {} /\ envRes'.error = None) =>
                    /\ after = {OdooName(e)}
                    /\ DOMAIN instances' = DOMAIN instances \cup {OdooName(e)}
              /\ before # {} =>
                    /\ after = before
                    /\ DOMAIN instances' = DOMAIN instances
              /\ envRes'.error # "InstanceAlreadyExistsError" ]_vars

\* a deploy to staging failed with InstanceAlreadyExistsError: an earlier deploy
\* registered odoo-staging and failed to create its deployment, so the instance
\* is registered but bound to no environment
C24_Witness ==
    /\ envRes.op = "deploy" /\ envRes.arg = "staging"
    /\ envRes.error = "InstanceAlreadyExistsError"
    /\ "odoo-staging" \in DOMAIN instances
    /\ instances["odoo-staging"].environment = None
    /\ BoundInstances(Cur, "staging") = {}
    /\ history["staging"] = <<>>


(***************************************************************************)
(* The restart step and the history record of deploy                       *)
(***************************************************************************)
\* the instance bound to environment e after the step
BoundAfter(e) == CHOOSE n \in BoundInstances(Cur', e) : TRUE

C26_NotRunningShortCircuits ==
    [][ (/\ healthRes' # healthRes
         /\ healthRes'.op = "check_instance"
         /\ ~InstanceIsRunning(Cur, healthRes'.instance_name)) =>
          /\ healthRes'.status = CRITICAL
          /\ healthRes'.checks = <<HealthCheckResult("Instance Status", CRITICAL)>>
          /\ healthRes'.ran = {}
          /\ healthRes'.cpu_percent = 0 /\ healthRes'.memory_mb = 0
          /\ healthRes'.memory_percent = 0 /\ healthRes'.disk_percent = 0 ]_vars

\* the instance app, created and stopped, was checked: one critical result
C26_Witness ==
    /\ healthRes.op = "check_instance" /\ healthRes.instance_name = "app"
    /\ ~healthRes.running
    /\ "app" \in DOMAIN instances /\ fileExists["app"] /\ proc["app"] = "down"
    /\ healthRes.status = CRITICAL /\ Len(healthRes.checks) = 1
    /\ healthRes.ran = {}


(***************************************************************************)
(* Resource thresholds (HealthMonitor.__init__, _check_resources)          *)
(***************************************************************************)
\* the class of the percentage p under a warning and a critical threshold
Classify(p, warning, critical) ==
    IF p >= critical THEN CRITICAL ELSE IF p >= warning THEN WARNING ELSE HEALTHY

MostSevere(classes) ==
    IF CRITICAL \in classes THEN CRITICAL
    ELSE IF WARNING \in classes THEN WARNING ELSE HEALTHY

\* C27 (as stated): the resource check of a monitor built from the default or
\* from explicitly passed thresholds classifies each of cpu, memory and disk as
\* critical at or above its critical threshold, warning from its warning
\* threshold up to the critical one and healthy below, and reports the most
\* severe of the three classes; with the defaults, memory at 70..84 percent is a
\* warning and at 85 or more is critical.
C27_ThresholdClasses ==
    (healthRes.op = "check_resources" /\ ~healthRes.stats.raises) =>
        LET a == healthRes.passed
            u == healthRes.stats
        IN  healthRes.checks[1].status =
              MostSevere({Classify(u.cpu, a.cpu_warning, a.cpu_critical),
                          Classify(u.memory_percent, a.memory_warning, a.memory_critical),
                          Classify(u.disk_percent, a.disk_warning, a.disk_critical)})

\* a monitor built from the defaults reports critical for memory at 70 percent
\* with cpu and disk below their warning thresholds
C27_Witness ==
    /\ healthRes.op = "check_resources" /\ healthRes.passed = DefaultThresholds
    /\ ~healthRes.stats.raises
    /\ healthRes.stats.cpu = 69 /\ healthRes.stats.memory_percent = 70
    /\ healthRes.stats.disk_percent = 79
    /\ healthRes.checks[1].status = CRITICAL


(***************************************************************************)
(* The rate limit under the should_restart -> start -> record_restart      *)
(* protocol                                                                *)
(***************************************************************************)
\* C30: when every record_restart(name) directly follows a should_restart(name)
\* that returned true, the number of restarts recorded for any name within the
\* trailing restart_window never exceeds max_restarts, now and at every later
\* instant; and a call for one name changes neither the stored restarts nor the
\* answers of should_restart and get_restart_count for any other name.
C30_ProtocolRateLimit ==
    [][ /\ \A n \in ARNames : \A t \in Instants :
              t >= now' => get_restart_count(restart_history', n, t) <= max_restarts
        /\ arRes'.op \in {"should_restart", "record_restart", "get_restart_count"} =>
              \A m \in ARNames \ {arRes'.name} :
                  /\ m \in DOMAIN restart_history' <=> m \in DOMAIN restart_history
                  /\ m \in DOMAIN restart_history => restart_history'[m] = restart_history[m]
                  /\ should_restart(restart_history', m, now').ret =
                        should_restart(restart_history, m, now').ret
                  /\ get_restart_count(restart_history', m, now') =
                        get_restart_count(restart_history, m, now') ]_vars

\* three restarts of a were allowed and recorded at 0, 1 and 299, a fourth is
\* refused at 299, and the restart recorded for b is still stored
C30_Witness ==
    /\ arRes.op = "should_restart" /\ arRes.name = "a" /\ ~arRes.ret
    /\ now = 299
    /\ StoredFor("a") = <<0, 1, 299>>
    /\ Len(StoredFor("b")) = 1


(***************************************************************************)
(* The instance's persisted branch against the newest record               *)
(***************************************************************************)
\* the branch of environment e's newest deployment record agrees with the
\* branch persisted for the instance bound to e
BranchAgrees(s, hist, e) ==
    \A n \in BoundInstances(s, e) :
        hist[e] # <<>> => s.instances[n].git_branch = hist[e][Len(hist[e])].branch

\* C29 (as stated): after any sequence of deploy calls, including calls that
\* raise part-way, the branch persisted for an environment's bound instance is
\* the branch of that environment's newest history record, and a deploy that
\* raises appends no history record.
C29_ConfigMatchesNewestRecord ==
    [][ envRes'.op = "deploy" =>
          /\ envRes'.error # None => history' = history
          /\ \A e \in EnvNames : BranchAgrees(Cur', history', e) ]_vars

\* a deploy of feature to dev raised DockerError at the restart: the instance's
\* persisted branch is feature while the newest record of dev is of main
C29_Witness ==
    /\ envRes.op = "deploy" /\ envRes.arg = "dev" /\ envRes.error = "DockerError"
    /\ envRes.restart_called
    /\ BoundInstances(Cur, "dev") = {"odoo-dev"}
    /\ instances["odoo-dev"].git_branch = "feature"
    /\ Len(history["dev"]) = 1 /\ history["dev"][1].branch = "main"


(***************************************************************************)
(* Overlapping deploys                                                     *)
(***************************************************************************)
Records(hist) == UNION { { hist[e][i] : i \in 1..Len(hist[e]) } : e \in DOMAIN hist }

\* some finished deploy of some process has no record in the history
LostRecord ==
    \E d \in Deployers : \E i \in 1..Len(deploys[d].completed) :
        deploys[d].completed[i] \notin Records(history)

\* C28: nothing keeps the read-modify-write steps of two deploys apart. The
\* process that dumps the history document writes the document it loaded with
\* its own record appended as the newest of its environment: every record
\* written by another process since the load is gone, for whatever environment
\* it is, and no other record is lost. The process that saves the registry
\* writes the registry it loaded with its own branch set. So a state is
\* reachable (the witness) where a finished deploy has no record and the bound
\* instance's branch differs from the newest record's.
C28_OverlapLosesUpdates ==
    [][ \A d \in Deployers :
          /\ (deploys[d].pc = "write" /\ deploys'[d].pc = "idle") =>
                LET l == deploys[d] IN
                /\ history'[l.environment][Len(history'[l.environment])] = l.rec
                /\ \A r \in Records(history) :
                      r \in Records(history') <=> r \in Records(l.data)
          /\ (deploys[d].pc = "save" /\ deploys'[d].pc = "restart") =>
                LET l == deploys[d] IN
                l.name \in DOMAIN l.reg =>
                    /\ instances'[l.name].git_branch = l.branch
                    /\ \A n \in DOMAIN instances' \ {l.name} : instances'[n] = l.reg[n] ]_vars

\* d1 and d2 have both finished a deploy to dev without an error; d2's record is
\* not in the history, and the instance's branch is not the newest record's
C28_Witness ==
    /\ \A d \in Deployers : deploys[d].pc = "idle" /\ Len(deploys[d].completed) = 1
    /\ deploys["d1"].completed[1].environment = "dev"
    /\ deploys["d2"].completed[1].environment = "dev"
    /\ LostRecord
    /\ history["dev"] = <<deploys["d1"].completed[1]>>
    /\ ~BranchAgrees(Cur, history, "dev")

====
